---- MODULE Spec2Model ----
(***************************************************************************)
(* A state-machine model of the MeowTgPremium bot: the user sheet (balance *)
(* ledger), the orders sheet, the cached config, the per-user conversation *)
(* handlers registered in main() and AdminCommands.register_handlers, the  *)
(* receipt approval callbacks and the broadcast loops.                     *)
(*                                                                         *)
(* Updates are processed one at a time (Application.builder().build() is   *)
(* used without concurrent_updates and every sheet call is a blocking      *)
(* call), so one handler invocation is one action.  The two loops over the *)
(* recipients of a broadcast are modelled one iteration per step.          *)
(***************************************************************************)
EXTENDS Integers, Sequences, FiniteSets, TLC

VARIABLES
    app,            \* which handler table is registered: "main" or "admin_commands"
    BOT_STATUS_ON,  \* meowpremium.BOT_STATUS_ON: FALSE is maintenance mode
    WS_CONFIG,      \* the config sheet: key -> value string
    CONFIG_CACHE,   \* meowpremium.CONFIG_CACHE["data"]: key -> value string
    CONFIG_TS,      \* meowpremium.CONFIG_CACHE["ts"]: time of the last refresh
    WS_USER_DATA,   \* rows of the user_data sheet (below the header row)
    WS_ORDERS,      \* rows of the orders sheet
    conv,           \* conv[u][c]: state of user u in ConversationHandler c
    user_data,      \* context.user_data of each user (a dict)
    controls,       \* receipt control messages in the admin chat
    clicks,         \* callback queries on control messages, not yet handled
    credited,       \* history: balance writes by Approve per control message (up to MaxClicks)
    bc,             \* the broadcast loop in progress (or finished last)
    last            \* the handler that ran last and what it replied

vars == <<app, BOT_STATUS_ON, WS_CONFIG, CONFIG_CACHE, CONFIG_TS, WS_USER_DATA, WS_ORDERS,
          conv, user_data, controls, clicks, credited, bc, last>>

----------------------------------------------------------------------------
(* Bounds of the model.                                                    *)

\* balances are kept within 0..MaxBalance
MaxBalance == 3
\* rows appended to the orders sheet
MaxOrders == 2
\* callback queries waiting to be handled
MaxClicks == 2
\* rows of the user sheet in a broadcast run
MaxRecipients == 10
\* configured prices are 0, 500, ..., 500 * MaxPriceUnits
MaxPriceUnits == 3
\* config numbers are multiples of 1 / RateScale
RateScale == 2
\* receipts one customer has forwarded at a time
MaxReceipts == 1
\* rows the user sheet grows to
MaxRows == 3
\* the clock's last reading, in seconds
MaxTime == 4

\* the administrator's user id
ADMIN_ID == 1
\* the "1000" used when a coin_rate_* setting is unset or not positive
DEFAULT_COIN_RATE == 1000
\* seconds a read of the config sheet stays valid (environment setting)
CONFIG_TTL_SECONDS == 2
\* confirm_broadcast edits its status message every 10th success
PROGRESS_EVERY == 10

Customer == ADMIN_ID + 1        \* an ordinary user
Users == {ADMIN_ID, Customer}

Max(a, b) == IF a >= b THEN a ELSE b

----------------------------------------------------------------------------
(* Python dicts: a function whose domain is the set of keys present.       *)

EmptyDict == [k \in {} |-> 0]
Has(d, k) == k \in DOMAIN d
Put(d, k, v) == [x \in (DOMAIN d) \cup {k} |-> IF x = k THEN v ELSE d[x]]
PopAll(d, ks) == [x \in (DOMAIN d) \ ks |-> d[x]]

----------------------------------------------------------------------------
(* Config values are strings.  A string is modelled by what int() and      *)
(* float() make of it: cls "num" is a decimal number q / RateScale (int()  *)
(* accepts it only when it is whole), cls "text" is any other non-empty    *)
(* string, cls "empty" is "".                                              *)

NumStr(q) == [cls |-> "num", q |-> q]
TextStr == [cls |-> "text", q |-> 0]
IntStr(n) == NumStr(n * RateScale)

\* int(s): [ok, v]; ok = FALSE stands for ValueError
py_int(s) ==
    IF s.cls = "num" /\ s.q % RateScale = 0
    THEN [ok |-> TRUE, v |-> s.q \div RateScale]
    ELSE [ok |-> FALSE, v |-> 0]

\* float(s): [ok, q] with value q / RateScale
py_float(s) ==
    IF s.cls = "num" THEN [ok |-> TRUE, q |-> s.q] ELSE [ok |-> FALSE, q |-> 0]

\* int(a / b) for an integer a and a float b = bq / RateScale > 0:
\* true division, then truncation toward zero
TruncDiv(a, bq) ==
    IF a >= 0 THEN (a * RateScale) \div bq ELSE -(((-a) * RateScale) \div bq)

get_config_data == CONFIG_CACHE

ProductKeys == {"star_100", "premium_3"}

\* key.split("_")
Split(key) ==
    CASE key = "star_100" -> <<"star", "100">>
      [] key = "premium_3" -> <<"premium", "3">>
      [] OTHER -> <<key>>

\* `product_type = product_key.split("_")[1]` in start_product_purchase
ProductType(product_key) == Split(product_key)[2]

\* the product_type get_product_keyboard is called with for this key: the
\* prefix before the first "_"
KeyboardType(product_key) == Split(product_key)[1]

\* f"coin_rate_{product_type}"
CoinRateKey(type) ==
    CASE type = "star" -> "coin_rate_star"
      [] type = "premium" -> "coin_rate_premium"
      [] type = "100" -> "coin_rate_100"
      [] type = "3" -> "coin_rate_3"
      [] OTHER -> "coin_rate_coin"

\* config.get(coin_rate_key, "1000")
CoinRateSetting(config, type) ==
    IF Has(config, CoinRateKey(type)) THEN config[CoinRateKey(type)]
    ELSE IntStr(DEFAULT_COIN_RATE)

\* `if coin_rate_mmk <= 0: coin_rate_mmk = 1000.0`
ClampRate(q) == IF q <= 0 THEN DEFAULT_COIN_RATE * RateScale ELSE q

\* `price_coin = max(1, price_coin)`
AtLeastOne_Unclamped(n) == n
AtLeastOne(n) == Max(1, n)

\* start_product_purchase, the price resolution: what the handler does with
\* the config entry of product_key.  res is "not_found", "invalid" or "ok".
ResolvePrice(config, product_key) ==
    IF ~Has(config, product_key) \/ config[product_key].cls = "empty"
    THEN [res |-> "not_found", price_mmk |-> 0, price_coin |-> 0]
    ELSE LET p == py_int(config[product_key])
             r == py_float(CoinRateSetting(config, ProductType(product_key)))
         IN  IF ~p.ok \/ ~r.ok
             THEN [res |-> "invalid", price_mmk |-> 0, price_coin |-> 0]
             ELSE [res |-> "ok", price_mmk |-> p.v,
                   price_coin |-> AtLeastOne(TruncDiv(p.v, ClampRate(r.q)))]

\* get_product_keyboard: the coin price shown on the button of product_key;
\* res = "skipped" when the button is left out
KeyboardPrice(config, product_key) ==
    IF ~Has(config, product_key) \/ config[product_key].cls = "empty"
    THEN [res |-> "skipped", price_coin |-> 0]
    ELSE LET p == py_int(config[product_key])
             r == py_float(CoinRateSetting(config, KeyboardType(product_key)))
             rate == ClampRate(IF r.ok THEN r.q ELSE DEFAULT_COIN_RATE * RateScale)
         IN  IF ~p.ok THEN [res |-> "skipped", price_coin |-> 0]
             ELSE [res |-> "ok", price_coin |-> AtLeastOne(TruncDiv(p.v, rate))]

----------------------------------------------------------------------------
(* The user_data sheet.  A row is [user_id, username, coin_balance,        *)
(* banned]; row numbers count from 1 below the header.  Every sheet call   *)
(* can raise; the outcome is an argument of the operator that makes it.    *)

Row(uid, name, bal) ==
    [user_id |-> uid, username |-> name, coin_balance |-> bal, banned |-> FALSE]

UsernameOf(uid) == IF uid = ADMIN_ID THEN "@admin" ELSE "@cust"

\* the user sheet with the admin's row and the customer's
Sheet(balance) ==
    << Row(ADMIN_ID, UsernameOf(ADMIN_ID), 0),
       Row(Customer, UsernameOf(Customer), balance) >>

RECURSIVE FirstRow(_, _, _)
FirstRow(sheet, uid, i) ==
    IF i > Len(sheet) THEN 0
    ELSE IF sheet[i].user_id = uid THEN i
    ELSE FirstRow(sheet, uid, i + 1)

\* find_user_row: the row of the first cell of column 1 equal to user_id;
\* 0 stands for None (no such cell, or the lookup raised)
find_user_row(sheet, uid, found) ==
    IF found THEN FirstRow(sheet, uid, 1) ELSE 0

\* register_user_if_not_exists: a row with balance 0 is appended when
\* find_user_row returns None; ap is what append_row does
register_user_if_not_exists(sheet, uid, name, found, ap) ==
    IF find_user_row(sheet, uid, found) = 0 /\ ap = "ok"
    THEN Append(sheet, Row(uid, name, 0))
    ELSE sheet

RECURSIVE FirstNameRow(_, _, _)
FirstNameRow(sheet, name, i) ==
    IF i > Len(sheet) THEN 0
    ELSE IF sheet[i].username = name THEN i
    ELSE FirstNameRow(sheet, name, i + 1)

\* get_user_data_from_sheet: the row's fields, or the default record when
\* the row is not found or a sheet call raised (rd = "fail")
get_user_data_from_sheet(sheet, uid, rd) ==
    LET row == find_user_row(sheet, uid, rd = "ok")
    IN  IF row = 0
        THEN [user_id |-> uid, username |-> "N/A", coin_balance |-> 0, banned |-> FALSE]
        ELSE sheet[row]

is_user_banned(sheet, uid, rd) == get_user_data_from_sheet(sheet, uid, rd).banned

\* update_user_balance: [ok, sheet].  wr is what the sheet does:
\*   "ok"          both update_cell calls succeed
\*   "no_row"      find_user_row returns None
\*   "fail_cell3"  update_cell(row, 3, ...) raises: nothing written
\*   "fail_cell5"  update_cell(row, 5, ...) raises after the balance was written
WriteOutcomes == {"ok", "no_row", "fail_cell3", "fail_cell5"}

update_user_balance(sheet, uid, new_balance, wr) ==
    LET row == find_user_row(sheet, uid, wr # "no_row")
    IN  IF row = 0 \/ wr = "fail_cell3" THEN [ok |-> FALSE, sheet |-> sheet]
        ELSE [ok |-> wr = "ok",
              sheet |-> [sheet EXCEPT ![row].coin_balance = new_balance]]

\* the stored balance of a user (first row), for stating properties
Balance(sheet, uid) == sheet[FirstRow(sheet, uid, 1)].coin_balance

\* get_dynamic_admin_id / is_admin
get_dynamic_admin_id(config) ==
    IF ~Has(config, "admin_contact_id") THEN ADMIN_ID
    ELSE LET r == py_int(config["admin_contact_id"])
         IN  IF r.ok THEN r.v ELSE ADMIN_ID

\* variant of is_admin: the compiled-in id only
is_admin_StaticId(uid) == uid = ADMIN_ID
is_admin(uid) == uid = get_dynamic_admin_id(get_config_data)

\* AdminCommands.is_multi_admin, a callable handed to the constructor
is_multi_admin(uid) == is_admin(uid)

\* log_order: the row appended to the orders sheet; lg = "fail" is a raise
log_order(orders, order, lg) ==
    IF lg = "ok" THEN Append(orders, order) ELSE orders

----------------------------------------------------------------------------
(* Updates.  A text message is modelled by the facts the filters and the   *)
(* parsers read from it: its exact text when it is a keyboard label, and   *)
(* its shape otherwise.                                                    *)
(*   cls "digits": decimal digits only, value val, length len              *)
(*   cls "signed": a sign followed by digits, value val                    *)
(*   cls "numprefix": digits of value val followed by other characters,    *)
(*                 as in "1k", "1,000" or "1.5"                            *)
(*   cls "word"  : len characters of [A-Za-z0-9_], not all digits          *)
(*   cls "at"    : "@" followed by such a word                             *)
(*   cls "other" : anything else (every keyboard label is of this class)   *)
(* name is the username the text spells (with its "@"), "" if none.        *)

Text(label, cls, len, val, name) ==
    [kind |-> "text", label |-> label, cls |-> cls, len |-> len, val |-> val,
     name |-> name, data |-> "", arg |-> 0]
Button(label) == Text(label, "other", 0, 0, "")
Digits(n, len) == Text("", "digits", len, n, "")
Signed(n) == Text("", "signed", 2, n, "")
NumPrefix(n) == Text("", "numprefix", 2, n, "")
AtName(name) == Text("", "at", 6, 0, name)
Prose == Text("", "other", 9, 0, "")
\* a photo; len is the length of its caption
PhotoMsg(len) ==
    [kind |-> "photo", label |-> "", cls |-> "other", len |-> len, val |-> 0,
     name |-> "", data |-> "", arg |-> 0]
Callback(data, arg) ==
    [kind |-> "callback", label |-> "", cls |-> "other", len |-> 0, val |-> 0,
     name |-> "", data |-> data, arg |-> arg]

\* no message: a callback query on a control message, a step of a loop
NoInput == Callback("", 0)

BTN_PAYMENT == Button("Payment Method")
BTN_CANCEL_ORDER == Button("Cancel Order")       \* CANCEL_KEYBOARD
BTN_ADMIN_CANCEL == Button("Cancel")             \* ADMIN_CANCEL_KEYBOARD
BTN_CASH_CONTROL == Button("Cash Control")
BTN_BROADCAST == Button("Broadcast")
BTN_AC_CANCEL == Button("AC Cancel")             \* the Cancel key of AdminCommands

\* PHONE_RE = ^\d{8,15}$
PHONE_RE(t) == t.cls = "digits" /\ t.len >= 8 /\ t.len <= 15

\* USERNAME_RE = ^@?([a-zA-Z0-9_]{5,32})$ ; normalize_username(raw) # ""
USERNAME_RE(t) ==
    \/ t.cls \in {"digits", "word"} /\ t.len >= 5 /\ t.len <= 32
    \/ t.cls = "at" /\ t.len - 1 >= 5 /\ t.len - 1 <= 32

----------------------------------------------------------------------------
(* Handler registration.  A handler is [flt, arg, cb]: the filter, its     *)
(* argument and the callback.  Filters:                                    *)
(*   "Text"     filters.Text(arg): the message is exactly the label arg    *)
(*   "TEXT"     filters.TEXT & ~filters.COMMAND                            *)
(*   "CONTENT"  text or photo (receipts, broadcast content)                *)
(*   "callback" CallbackQueryHandler(pattern): arg names the pattern       *)

H(flt, arg, cb) == [flt |-> flt, arg |-> arg, cb |-> cb]

\* re.match(pattern, data) for the callback data of the model
PatternMatches(pat, data) ==
    CASE pat = "^buycoin_" -> data = "buycoin_1_1000"
      [] pat = "^pay_" -> data = "pay_kpay"
      [] pat = "^payment_back$" -> data = "payment_back"
      [] pat = "^(star|premium)_" -> data \in ProductKeys
      [] pat = "^(confirm|cancel)_broadcast$" ->
            data \in {"confirm_broadcast", "cancel_broadcast"}
      [] pat = "^broadcast_type_" ->
            data \in {"broadcast_type_all", "broadcast_type_single"}
      [] pat = "^broadcast_confirm$" -> data = "broadcast_confirm"
      [] pat = "^broadcast_cancel$" -> data = "broadcast_cancel"
      [] pat = "^user_add_" -> data = "user_add_"
      [] OTHER -> FALSE

Matches(h, inp) ==
    CASE h.flt = "Text" -> inp.kind = "text" /\ inp.label = h.arg
      [] h.flt = "TEXT" -> inp.kind = "text"
      [] h.flt = "CONTENT" -> inp.kind \in {"text", "photo"}
      [] h.flt = "callback" -> inp.kind = "callback" /\ PatternMatches(h.arg, inp.data)
      [] OTHER -> FALSE

CancelOrderHandler == H("Text", "Cancel Order", "cancel_order")

\* main(): coin_purchase_conv_handler
coin_purchase_conv_handler ==
    [name |-> "coin_purchase",
     entry |-> << H("Text", "Payment Method", "handle_payment_method"),
                  H("callback", "^payment_back$", "handle_payment_method") >>,
     states |->
        [st \in {"SELECT_COIN_PACKAGE", "CHOOSING_PAYMENT_METHOD", "WAITING_FOR_RECEIPT"} |->
            CASE st = "SELECT_COIN_PACKAGE" ->
                    << H("callback", "^buycoin_", "handle_coin_package_select"),
                       CancelOrderHandler >>
              [] st = "CHOOSING_PAYMENT_METHOD" ->
                    << H("callback", "^pay_", "start_payment_conv"),
                       H("callback", "^payment_back$", "back_to_payment_menu"),
                       CancelOrderHandler >>
              [] OTHER ->
                    << H("CONTENT", "", "receive_receipt"),
                       CancelOrderHandler >>],
     fallbacks |-> << CancelOrderHandler >>,
     reentry |-> FALSE]

\* main(): product_purchase_conv_handler
product_purchase_conv_handler ==
    [name |-> "product_purchase",
     entry |-> << H("callback", "^(star|premium)_", "start_product_purchase") >>,
     states |->
        [st \in {"WAITING_FOR_PHONE", "WAITING_FOR_USERNAME"} |->
            IF st = "WAITING_FOR_PHONE"
            THEN << H("TEXT", "", "receive_phone_number"), CancelOrderHandler >>
            ELSE << H("TEXT", "", "receive_premium_username"), CancelOrderHandler >>],
     fallbacks |-> << CancelOrderHandler >>,
     reentry |-> FALSE]

\* main(): cash_control_conv_handler
cash_control_conv_handler ==
    [name |-> "cash_control",
     entry |-> << H("Text", "Cash Control", "start_cash_control") >>,
     states |->
        [st \in {"AWAIT_CASH_CONTROL_ID", "AWAIT_CASH_CONTROL_AMOUNT"} |->
            IF st = "AWAIT_CASH_CONTROL_ID"
            THEN << H("TEXT", "", "cash_control_get_id"),
                    H("Text", "Cancel", "cash_control_cancel") >>
            ELSE << H("TEXT", "", "cash_control_apply_amount"),
                    H("Text", "Cancel", "cash_control_cancel") >>],
     fallbacks |-> << H("Text", "Cancel", "cash_control_cancel") >>,
     reentry |-> FALSE]

\* main(): user_search_conv_handler
user_search_conv_handler ==
    [name |-> "user_search",
     entry |-> << H("Text", "User Search", "start_user_search") >>,
     states |->
        [st \in {"AWAIT_USER_SEARCH_ID"} |->
            << H("TEXT", "", "user_search_get_id"),
               H("Text", "Cancel", "user_search_cancel") >>],
     fallbacks |-> << H("Text", "Cancel", "user_search_cancel") >>,
     reentry |-> FALSE]

\* main(): broadcast_conv_handler
broadcast_conv_handler ==
    [name |-> "broadcast",
     entry |-> << H("Text", "Broadcast", "start_broadcast") >>,
     states |->
        [st \in {"AWAIT_BROADCAST_CONTENT", "CONFIRM_BROADCAST"} |->
            IF st = "AWAIT_BROADCAST_CONTENT"
            THEN << H("CONTENT", "", "receive_broadcast_content"),
                    H("Text", "Cancel", "broadcast_cancel") >>
            ELSE << H("callback", "^(confirm|cancel)_broadcast$", "execute_broadcast"),
                    H("Text", "Cancel", "broadcast_cancel") >>],
     fallbacks |-> << H("Text", "Cancel", "broadcast_cancel") >>,
     reentry |-> FALSE]

\* AdminCommands.register_handlers: broadcast_handler
AC_broadcast_handler ==
    [name |-> "ac_broadcast",
     entry |-> << H("Text", "Broadcast", "AC_start_broadcast_type") >>,
     states |->
        [st \in {"AWAIT_BROADCAST_TYPE", "AWAIT_BROADCAST_TARGET_USER",
                 "AWAIT_BROADCAST_MESSAGE", "AWAIT_BROADCAST_CONFIRM"} |->
            CASE st = "AWAIT_BROADCAST_TYPE" ->
                    << H("callback", "^broadcast_type_", "AC_handle_broadcast_type") >>
              [] st = "AWAIT_BROADCAST_TARGET_USER" ->
                    << H("TEXT", "", "AC_handle_broadcast_target_user") >>
              [] st = "AWAIT_BROADCAST_MESSAGE" ->
                    << H("CONTENT", "", "AC_receive_broadcast_message") >>
              [] OTHER ->
                    << H("callback", "^broadcast_confirm$", "AC_confirm_broadcast"),
                       H("callback", "^broadcast_cancel$", "AC_cancel_broadcast") >>],
     fallbacks |-> << H("Text", "AC Cancel", "AC_cancel_broadcast_action"),
                      H("callback", "^broadcast_cancel$", "AC_cancel_broadcast_action_callback") >>,
     reentry |-> TRUE]

\* AdminCommands.register_handlers: cash_control_handler
AC_cash_control_handler ==
    [name |-> "ac_cash_control",
     entry |-> << H("Text", "Cash Control", "AC_start_cash_control") >>,
     states |->
        [st \in {"AWAIT_CASH_CONTROL_ID", "AWAIT_CASH_CONTROL_AMOUNT"} |->
            IF st = "AWAIT_CASH_CONTROL_ID"
            THEN << H("TEXT", "", "AC_cash_control_get_id") >>
            ELSE << H("TEXT", "", "AC_cash_control_apply_amount"),
                    H("callback", "^user_add_", "AC_handle_user_add_coins") >>],
     fallbacks |-> << H("Text", "AC Cancel", "AC_cash_control_cancel") >>,
     reentry |-> TRUE]

ConvNames ==
    {"coin_purchase", "product_purchase", "cash_control", "user_search",
     "broadcast", "ac_broadcast", "ac_cash_control"}

\* the conversation handlers in the order application.add_handler adds them
Handlers(a) ==
    IF a = "main"
    THEN << coin_purchase_conv_handler, product_purchase_conv_handler,
            cash_control_conv_handler, user_search_conv_handler,
            broadcast_conv_handler >>
    ELSE << coin_purchase_conv_handler, product_purchase_conv_handler,
            AC_broadcast_handler, AC_cash_control_handler >>

RECURSIVE FirstMatch(_, _, _)
FirstMatch(hs, inp, i) ==
    IF i > Len(hs) THEN 0
    ELSE IF Matches(hs[i], inp) THEN i
    ELSE FirstMatch(hs, inp, i + 1)

\* ConversationHandler.check_update: the callback that takes the update for a
\* user whose state in conversation c is st, "" when the conversation passes
ConvCheck(c, st, inp) ==
    LET e == FirstMatch(c.entry, inp, 1)
    IN  IF (st = "NONE" \/ c.reentry) /\ e # 0 THEN c.entry[e].cb
        ELSE IF st = "NONE" THEN ""
        ELSE LET hs == c.states[st]
                 s == FirstMatch(hs, inp, 1)
                 f == FirstMatch(c.fallbacks, inp, 1)
             IN  IF s # 0 THEN hs[s].cb
                 ELSE IF f # 0 THEN c.fallbacks[f].cb
                 ELSE ""

\* Application.process_update: the first handler of the group that takes it
RECURSIVE RouteFrom(_, _, _, _)
RouteFrom(hs, cv, inp, i) ==
    IF i > Len(hs) THEN [conv |-> "", cb |-> ""]
    ELSE LET cb == ConvCheck(hs[i], cv[hs[i].name], inp)
         IN  IF cb # "" THEN [conv |-> hs[i].name, cb |-> cb]
             ELSE RouteFrom(hs, cv, inp, i + 1)

Route(u, inp) == RouteFrom(Handlers(app), conv[u], inp, 1)

\* the update reaches callback cb (no broadcast loop is running: updates are
\* handled one after the other)
Routed(u, inp, cb) == bc.pc # "running" /\ Route(u, inp).cb = cb

\* the conversation's state after the callback returned st ("END" clears it)
SetConv(u, c, st) ==
    [conv EXCEPT ![u][c] = IF st = "END" THEN "NONE" ELSE st]

\* what the handler that ran last was given and what it answered: the user,
\* the keyboard label of the input ("" when it is none), the callback and
\* the reply
Reply(u, inp, cb, text) ==
    [user |-> u, label |-> inp.label, cb |-> cb, reply |-> text]

----------------------------------------------------------------------------
(* Top-up flow: coin package -> payment method -> receipt.                 *)

ReadOutcomes == {"ok", "fail"}

\* start_command (CommandHandler("start")): every state handler but the
\* broadcast content ones filters commands out, so the command reaches it
start_command(u, found, ap, rd) ==
    /\ bc.pc # "running"
    /\ conv[u]["broadcast"] # "AWAIT_BROADCAST_CONTENT"
    /\ conv[u]["ac_broadcast"] # "AWAIT_BROADCAST_MESSAGE"
    /\ Len(WS_USER_DATA) < MaxRows
    /\ WS_USER_DATA' =
          register_user_if_not_exists(WS_USER_DATA, u, UsernameOf(u), found, ap)
    /\ last' = [user |-> u, label |-> "/start", cb |-> "start_command",
                reply |-> IF ~BOT_STATUS_ON /\ u # get_dynamic_admin_id(get_config_data)
                          THEN "maintenance"
                          ELSE IF is_user_banned(WS_USER_DATA', u, rd) THEN "banned"
                          ELSE "welcome"]
    /\ UNCHANGED <<app, BOT_STATUS_ON, WS_CONFIG, CONFIG_CACHE, CONFIG_TS, WS_ORDERS, conv,
                   user_data, controls, clicks, credited, bc>>

\* handle_payment_method (entry point of coin_purchase_conv_handler)
handle_payment_method(u, inp, rd) ==
    /\ Routed(u, inp, "handle_payment_method")
    /\ IF ~BOT_STATUS_ON /\ u # get_dynamic_admin_id(get_config_data)
       THEN /\ conv' = SetConv(u, "coin_purchase", "END")
            /\ last' = Reply(u, inp, "handle_payment_method", "maintenance")
       ELSE IF is_user_banned(WS_USER_DATA, u, rd)
       THEN /\ conv' = SetConv(u, "coin_purchase", "END")
            /\ last' = Reply(u, inp, "handle_payment_method", "banned")
       ELSE /\ conv' = SetConv(u, "coin_purchase", "SELECT_COIN_PACKAGE")
            /\ last' = Reply(u, inp, "handle_payment_method", "select_coin_package")
    /\ UNCHANGED <<app, BOT_STATUS_ON, WS_CONFIG, CONFIG_CACHE, CONFIG_TS, WS_USER_DATA,
                   WS_ORDERS, user_data, controls, clicks, credited, bc>>

\* handle_coin_package_select
handle_coin_package_select(u, inp) ==
    /\ Routed(u, inp, "handle_coin_package_select")
    /\ user_data' = [user_data EXCEPT ![u] = Put(@, "selected_coinpkg", inp.data)]
    /\ conv' = SetConv(u, "coin_purchase", "CHOOSING_PAYMENT_METHOD")
    /\ last' = Reply(u, inp, "handle_coin_package_select", "choose_payment_method")
    /\ UNCHANGED <<app, BOT_STATUS_ON, WS_CONFIG, CONFIG_CACHE, CONFIG_TS, WS_USER_DATA,
                   WS_ORDERS, controls, clicks, credited, bc>>

\* start_payment_conv
start_payment_conv(u, inp) ==
    /\ Routed(u, inp, "start_payment_conv")
    /\ conv' = SetConv(u, "coin_purchase", "WAITING_FOR_RECEIPT")
    /\ last' = Reply(u, inp, "start_payment_conv", "send_receipt")
    /\ UNCHANGED <<app, BOT_STATUS_ON, WS_CONFIG, CONFIG_CACHE, CONFIG_TS, WS_USER_DATA,
                   WS_ORDERS, user_data, controls, clicks, credited, bc>>

\* back_to_payment_menu
back_to_payment_menu(u, inp) ==
    /\ Routed(u, inp, "back_to_payment_menu")
    /\ conv' = SetConv(u, "coin_purchase", "SELECT_COIN_PACKAGE")
    /\ last' = Reply(u, inp, "back_to_payment_menu", "select_coin_package")
    /\ UNCHANGED <<app, BOT_STATUS_ON, WS_CONFIG, CONFIG_CACHE, CONFIG_TS, WS_USER_DATA,
                   WS_ORDERS, user_data, controls, clicks, credited, bc>>

\* The text of a control message, as far as the callbacks read it: the stage
\* it was last rewritten to, and whether it holds one of the two marker
\* characters the guard looks for.
\* name_mark: the sender's display name, quoted in the original text, holds
\* a marker character.
ControlText(stage, name_mark, marked) ==
    [stage |-> stage, name_mark |-> name_mark, marked |-> marked]

\* `choices` of receive_receipt: the configured amounts (the defaults when
\* receipt_approve_amounts is unset or empty), plus the detected amount
Choices(config, detected_amount) ==
    LET cfg == IF Has(config, "receipt_approve_amounts")
                  /\ config["receipt_approve_amounts"].cls = "amounts"
                  /\ config["receipt_approve_amounts"].items # {}
               THEN config["receipt_approve_amounts"].items
               ELSE {19000, 20000, 50000, 100000}
    IN  IF detected_amount # 0 THEN cfg \cup {detected_amount} ELSE cfg

\* parse_amount_from_text: the first run of 3 to 9 digits, 0 for None
parse_amount_from_text(inp) ==
    IF inp.kind = "text" /\ inp.cls = "digits" /\ inp.len >= 3 /\ inp.len <= 9
    THEN inp.val ELSE 0

\* receive_receipt: forwards the proof and sends the control message
\* "Receipt from @<name> ..." with its Approve/Deny keyboard.  name_mark: the
\* sender's display name holds a marker character.  send = "fail": a send to
\* the admin chat raised.
receive_receipt(u, inp, rd, send, name_mark) ==
    /\ Routed(u, inp, "receive_receipt")
    /\ conv' = SetConv(u, "coin_purchase", "END")
    /\ IF is_user_banned(WS_USER_DATA, u, rd)
       THEN /\ last' = Reply(u, inp, "receive_receipt", "banned")
            /\ UNCHANGED <<user_data, controls, credited>>
       ELSE /\ user_data' = [user_data EXCEPT ![u] =
                                Put(@, "last_receipt_meta", u)]
            /\ IF send = "ok"
               THEN /\ controls' = Append(controls,
                                     [user_id |-> u,
                                      choices |-> Choices(get_config_data,
                                                    parse_amount_from_text(inp)),
                                      text |-> ControlText("pending", name_mark,
                                                           name_mark)])
                    /\ credited' = Append(credited, 0)
                    /\ last' = Reply(u, inp, "receive_receipt", "receipt_sent")
               ELSE /\ last' = Reply(u, inp, "receive_receipt", "could_not_forward")
                    /\ UNCHANGED <<controls, credited>>
    /\ UNCHANGED <<app, BOT_STATUS_ON, WS_CONFIG, CONFIG_CACHE, CONFIG_TS, WS_USER_DATA,
                   WS_ORDERS, clicks, bc>>

----------------------------------------------------------------------------
(* Purchase flow: product -> phone -> username (finalize).                 *)

\* start_product_purchase
start_product_purchase(u, inp, rdBan, rdBal) ==
    /\ Routed(u, inp, "start_product_purchase")
    /\ LET price == ResolvePrice(get_config_data, inp.data)
           current_balance ==
               get_user_data_from_sheet(WS_USER_DATA, u, rdBal).coin_balance
       IN  IF is_user_banned(WS_USER_DATA, u, rdBan)
           THEN /\ last' = Reply(u, inp, "start_product_purchase", "banned")
                /\ UNCHANGED <<conv, user_data>>
           ELSE IF price.res # "ok"
           THEN /\ last' = Reply(u, inp, "start_product_purchase", price.res)
                /\ UNCHANGED <<conv, user_data>>
           ELSE IF current_balance < price.price_coin
           THEN /\ last' = Reply(u, inp, "start_product_purchase", "insufficient_coins")
                /\ UNCHANGED <<conv, user_data>>
           ELSE /\ user_data' = [user_data EXCEPT ![u] =
                        Put(@, "product_details",
                            [product_key |-> inp.data,
                             price_mmk |-> price.price_mmk,
                             price_coin |-> price.price_coin])]
                /\ conv' = SetConv(u, "product_purchase", "WAITING_FOR_PHONE")
                /\ last' = Reply(u, inp, "start_product_purchase", "send_phone")
    /\ UNCHANGED <<app, BOT_STATUS_ON, WS_CONFIG, CONFIG_CACHE, CONFIG_TS, WS_USER_DATA,
                   WS_ORDERS, controls, clicks, credited, bc>>

\* receive_phone_number
receive_phone_number(u, inp) ==
    /\ Routed(u, inp, "receive_phone_number")
    /\ IF ~PHONE_RE(inp)
       THEN /\ last' = Reply(u, inp, "receive_phone_number", "invalid_phone")
            /\ UNCHANGED <<conv, user_data>>
       ELSE /\ user_data' = [user_data EXCEPT ![u] = Put(@, "purchase_phone", inp.val)]
            /\ conv' = SetConv(u, "product_purchase", "WAITING_FOR_USERNAME")
            /\ last' = Reply(u, inp, "receive_phone_number", "send_username")
    /\ UNCHANGED <<app, BOT_STATUS_ON, WS_CONFIG, CONFIG_CACHE, CONFIG_TS, WS_USER_DATA,
                   WS_ORDERS, controls, clicks, credited, bc>>

\* `if current_balance < price_coin:` in receive_premium_username
InsufficientFunds_Unchecked(current_balance, price_coin) == FALSE
InsufficientFunds(current_balance, price_coin) == current_balance < price_coin

\* `if ok_balance:` in receive_premium_username: the order is logged
OrderIsLogged_Always(ok_balance) == TRUE
OrderIsLogged(ok_balance) == ok_balance

\* receive_premium_username: the finalize step
receive_premium_username(u, inp, rd, wr, lg) ==
    /\ Routed(u, inp, "receive_premium_username")
    /\ IF ~USERNAME_RE(inp)
       THEN /\ last' = Reply(u, inp, "receive_premium_username", "invalid_username")
            /\ UNCHANGED <<conv, user_data, WS_USER_DATA, WS_ORDERS>>
       ELSE IF ~Has(user_data[u], "product_details")
       THEN /\ last' = Reply(u, inp, "receive_premium_username", "details_lost")
            /\ conv' = SetConv(u, "product_purchase", "END")
            /\ UNCHANGED <<user_data, WS_USER_DATA, WS_ORDERS>>
       ELSE LET details == user_data[u]["product_details"]
                current_balance ==
                    get_user_data_from_sheet(WS_USER_DATA, u, rd).coin_balance
                new_balance == current_balance - details.price_coin
                w == update_user_balance(WS_USER_DATA, u, new_balance, wr)
                order == [user_id |-> u,
                          product_key |-> details.product_key,
                          price_mmk |-> details.price_mmk,
                          status |-> "PENDING (Coin Paid)"]
            IN  IF InsufficientFunds(current_balance, details.price_coin)
                THEN /\ last' = Reply(u, inp, "receive_premium_username", "insufficient_coins")
                     /\ conv' = SetConv(u, "product_purchase", "END")
                     /\ UNCHANGED <<user_data, WS_USER_DATA, WS_ORDERS>>
                ELSE /\ Len(WS_ORDERS) < MaxOrders
                     /\ WS_USER_DATA' = w.sheet
                     /\ WS_ORDERS' = IF OrderIsLogged(w.ok)
                                     THEN log_order(WS_ORDERS, order, lg)
                                     ELSE WS_ORDERS
                     /\ last' = Reply(u, inp, "receive_premium_username",
                                      IF w.ok THEN "purchase_successful"
                                      ELSE "failed_to_deduct")
                     /\ user_data' = [user_data EXCEPT ![u] =
                            PopAll(@, {"product_details", "purchase_phone"})]
                     /\ conv' = SetConv(u, "product_purchase", "END")
    /\ UNCHANGED <<app, BOT_STATUS_ON, WS_CONFIG, CONFIG_CACHE, CONFIG_TS, controls, clicks,
                   credited, bc>>

\* cancel_order: registered in both coin_purchase and product_purchase
cancel_order(u, inp) ==
    /\ Routed(u, inp, "cancel_order")
    /\ user_data' = [user_data EXCEPT ![u] =
            PopAll(@, {"product_details", "purchase_phone", "selected_coinpkg"})]
    /\ conv' = SetConv(u, Route(u, inp).conv, "END")
    /\ last' = Reply(u, inp, "cancel_order", "cancelled")
    /\ UNCHANGED <<app, BOT_STATUS_ON, WS_CONFIG, CONFIG_CACHE, CONFIG_TS, WS_USER_DATA,
                   WS_ORDERS, controls, clicks, credited, bc>>

----------------------------------------------------------------------------
(* Receipt approval.  A click on a button of control message m puts a      *)
(* callback query in the update queue; the query carries the message as it *)
(* was when the click was made.                                            *)

\* A press of an Approve (amount from the keyboard) or the Deny button.
\* cap bounds the number of queued clicks.
Click(m, from, data, amount, cap) ==
    /\ m \in 1..Len(controls)
    /\ Len(clicks) < cap
    /\ \/ data = "rpa" /\ amount \in controls[m].choices
       \/ data = "rpd" /\ amount = 0
    /\ clicks' = Append(clicks, [msg |-> m, from |-> from, data |-> data,
                                 amount |-> amount, text |-> controls[m].text])
    /\ UNCHANGED <<app, BOT_STATUS_ON, WS_CONFIG, CONFIG_CACHE, CONFIG_TS, WS_USER_DATA,
                   WS_ORDERS, conv, user_data, controls, credited, bc, last>>

\* `if "✅" in query.message.text or "❌" in query.message.text`
AlreadyProcessed_OnlyNotice(text) == text.stage = "notice"
AlreadyProcessed(text) == text.marked

\* the text written by the guard's branch: "This receipt has already been
\* processed by " followed by what comes after the first "by" of the old
\* text (the whole old text when it has no "by")
ProcessedNotice(text) ==
    ControlText("notice", text.name_mark,
                IF text.stage \in {"approved", "denied"} THEN text.name_mark
                ELSE text.marked)

\* coin_rate_coin as admin_approve_receipt_callback reads it
ApproveRate(config) ==
    LET r == py_float(IF Has(config, "coin_rate_coin") THEN config["coin_rate_coin"]
                      ELSE IntStr(DEFAULT_COIN_RATE))
    IN  ClampRate(IF r.ok THEN r.q ELSE DEFAULT_COIN_RATE * RateScale)

SetText(m, text) == [controls EXCEPT ![m].text = text]

\* `if query.from_user.id != admin_id_check`
NotAuthorized_Nobody(from) == FALSE
NotAuthorized(from) == from # get_dynamic_admin_id(get_config_data)

\* `current_coins = int(user_data.get("coin_balance", "0"))` of the approval:
\* read from the sheet when the click is handled (the variant takes the
\* balance the sheet held when the receipt was forwarded)
CurrentBalance_AtSubmission(user_id, rd) == Balance(Sheet(1), user_id)
CurrentBalance(user_id, rd) ==
    get_user_data_from_sheet(WS_USER_DATA, user_id, rd).coin_balance

\* admin_approve_receipt_callback, on the oldest queued click
admin_approve_receipt_callback(rd, wr) ==
    /\ bc.pc # "running"
    /\ clicks # <<>>
    /\ Head(clicks).data = "rpa"
    /\ clicks' = Tail(clicks)
    /\ LET ev == Head(clicks)
           user_id == controls[ev.msg].user_id
           coins_to_add == TruncDiv(ev.amount, ApproveRate(get_config_data))
           current_balance == CurrentBalance(user_id, rd)
           new_balance == current_balance + coins_to_add
           w == IF coins_to_add > 0
                THEN update_user_balance(WS_USER_DATA, user_id, new_balance, wr)
                ELSE [ok |-> TRUE, sheet |-> WS_USER_DATA]
           written == coins_to_add > 0 /\ wr \in {"ok", "fail_cell5"}
       IN  IF NotAuthorized(ev.from)
           THEN /\ last' = Reply(ev.from, NoInput, "admin_approve_receipt_callback",
                                 "not_authorized")
                /\ UNCHANGED <<WS_USER_DATA, controls, credited>>
           ELSE IF AlreadyProcessed(ev.text)
           THEN /\ controls' = SetText(ev.msg, ProcessedNotice(ev.text))
                /\ last' = Reply(ev.from, NoInput, "admin_approve_receipt_callback",
                                 "already_processed")
                /\ UNCHANGED <<WS_USER_DATA, credited>>
           ELSE /\ new_balance <= MaxBalance
                /\ WS_USER_DATA' = w.sheet
                /\ credited' = [credited EXCEPT ![ev.msg] =
                                   IF written /\ @ < MaxClicks THEN @ + 1 ELSE @]
                /\ controls' = SetText(ev.msg,
                       IF w.ok THEN ControlText("approved", ev.text.name_mark, TRUE)
                       ELSE ControlText("error", FALSE, TRUE))
                /\ last' = Reply(ev.from, NoInput, "admin_approve_receipt_callback",
                                 IF w.ok THEN "approved" ELSE "error")
    /\ UNCHANGED <<app, BOT_STATUS_ON, WS_CONFIG, CONFIG_CACHE, CONFIG_TS, WS_ORDERS, conv,
                   user_data, bc>>

\* variant of admin_deny_receipt_callback: a denial that also writes the
\* submitter's balance
admin_deny_receipt_callback_Writes ==
    /\ bc.pc # "running"
    /\ clicks # <<>>
    /\ Head(clicks).data = "rpd"
    /\ clicks' = Tail(clicks)
    /\ LET ev == Head(clicks)
           user_id == controls[ev.msg].user_id
           b == Balance(WS_USER_DATA, user_id)
       IN  /\ ~NotAuthorized(ev.from) /\ ~AlreadyProcessed(ev.text)
           /\ WS_USER_DATA' = update_user_balance(WS_USER_DATA, user_id,
                                   IF b < MaxBalance THEN b + 1 ELSE 0, "ok").sheet
           /\ controls' = SetText(ev.msg, ControlText("denied", ev.text.name_mark, TRUE))
           /\ last' = Reply(ev.from, NoInput, "admin_deny_receipt_callback", "denied")
    /\ UNCHANGED <<app, BOT_STATUS_ON, WS_CONFIG, CONFIG_CACHE, CONFIG_TS, WS_ORDERS, conv,
                   user_data, credited, bc>>

\* admin_deny_receipt_callback, on the oldest queued click
admin_deny_receipt_callback ==
    /\ bc.pc # "running"
    /\ clicks # <<>>
    /\ Head(clicks).data = "rpd"
    /\ clicks' = Tail(clicks)
    /\ LET ev == Head(clicks)
       IN  IF NotAuthorized(ev.from)
           THEN /\ last' = Reply(ev.from, NoInput, "admin_deny_receipt_callback",
                                 "not_authorized")
                /\ UNCHANGED controls
           ELSE IF AlreadyProcessed(ev.text)
           THEN /\ controls' = SetText(ev.msg, ProcessedNotice(ev.text))
                /\ last' = Reply(ev.from, NoInput, "admin_deny_receipt_callback",
                                 "already_processed")
           ELSE /\ controls' = SetText(ev.msg,
                       ControlText("denied", ev.text.name_mark, TRUE))
                /\ last' = Reply(ev.from, NoInput, "admin_deny_receipt_callback", "denied")
    /\ UNCHANGED <<app, BOT_STATUS_ON, WS_CONFIG, CONFIG_CACHE, CONFIG_TS, WS_USER_DATA,
                   WS_ORDERS, conv, user_data, credited, bc>>

----------------------------------------------------------------------------
(* Admin switches: the ban flag of a user, the maintenance mode, and the   *)
(* config cache they are read through.                                     *)

\* set_user_banned_status: [ok, sheet]; wr = "no_row": the row is not
\* found, any other wr but "ok": update_cell raised
set_user_banned_status(sheet, uid, banned, wr) ==
    LET row == find_user_row(sheet, uid, wr # "no_row")
    IN  IF row = 0 \/ wr # "ok" THEN [ok |-> FALSE, sheet |-> sheet]
        ELSE [ok |-> TRUE, sheet |-> [sheet EXCEPT ![row].banned = banned]]

\* toggle_ban_callback: `from` presses ban_<target> or unban_<target>
toggle_ban_callback(from, is_banning, target_user_id, wr) ==
    /\ bc.pc # "running"
    /\ IF ~is_admin(from)
       THEN /\ last' = Reply(from, NoInput, "toggle_ban_callback", "not_authorized")
            /\ UNCHANGED WS_USER_DATA
       ELSE IF target_user_id = from
       THEN /\ last' = Reply(from, NoInput, "toggle_ban_callback", "cannot_ban_yourself")
            /\ UNCHANGED WS_USER_DATA
       ELSE LET w == set_user_banned_status(WS_USER_DATA, target_user_id, is_banning, wr)
            IN  /\ WS_USER_DATA' = w.sheet
                /\ last' = Reply(from, NoInput, "toggle_ban_callback",
                                 IF ~w.ok THEN "failed"
                                 ELSE IF is_banning THEN "banned" ELSE "unbanned")
    /\ UNCHANGED <<app, BOT_STATUS_ON, WS_CONFIG, CONFIG_CACHE, CONFIG_TS, WS_ORDERS, conv,
                   user_data, controls, clicks, credited, bc>>

\* AdminCommands.handle_user_ban_unban: `from` presses user_ban_<target>, the
\* flag read from the sheet is toggled.  cell = "col8": update_cell raised on
\* column 7 and the retry wrote column 8, which is not the banned column
AC_handle_user_ban_unban(from, target_user_id, rd, found, cell) ==
    /\ bc.pc # "running"
    /\ LET is_banned == get_user_data_from_sheet(WS_USER_DATA, target_user_id, rd).banned
           new_status == ~is_banned
           row == find_user_row(WS_USER_DATA, target_user_id, found)
       IN  IF ~is_multi_admin(from)
           THEN /\ last' = Reply(from, NoInput, "AC_handle_user_ban_unban", "not_authorized")
                /\ UNCHANGED WS_USER_DATA
           ELSE IF row = 0
           THEN /\ last' = Reply(from, NoInput, "AC_handle_user_ban_unban", "not_found")
                /\ UNCHANGED WS_USER_DATA
           ELSE IF cell = "fail"
           THEN /\ last' = Reply(from, NoInput, "AC_handle_user_ban_unban", "error")
                /\ UNCHANGED WS_USER_DATA
           ELSE /\ WS_USER_DATA' = IF cell = "ok"
                                   THEN [WS_USER_DATA EXCEPT ![row].banned = new_status]
                                   ELSE WS_USER_DATA
                /\ last' = Reply(from, NoInput, "AC_handle_user_ban_unban",
                                 IF new_status THEN "banned" ELSE "unbanned")
    /\ UNCHANGED <<app, BOT_STATUS_ON, WS_CONFIG, CONFIG_CACHE, CONFIG_TS, WS_ORDERS, conv,
                   user_data, controls, clicks, credited, bc>>

\* the value "ON" or "OFF" of the bot_status key
StatusStr(status) == [cls |-> "status", q |-> 0, status |-> status]

\* _read_config_sheet: the sheet's mapping; {} when WS_CONFIG is not
\* initialized or get_all_records raises (rd = "fail")
read_config_sheet(sheet, rd) == IF rd = "ok" THEN sheet ELSE EmptyDict

\* get_config_data: the store is read when force_refresh is set or the cache
\* is older than CONFIG_TTL_SECONDS (the variant reads it at every call)
NeedsRead_Always(force_refresh, now) == TRUE
NeedsRead(force_refresh, now) ==
    force_refresh \/ now - CONFIG_TS > CONFIG_TTL_SECONDS

\* the times a call can be made at: the clock never runs backwards
Clock == CONFIG_TS..MaxTime

\* get_config_data(force_refresh) called at time now: the cache is replaced
\* by what _read_config_sheet returns (rd) and stamped, or returned as it is
get_config_data_refresh(force_refresh, now, rd) ==
    /\ bc.pc # "running"
    /\ IF NeedsRead(force_refresh, now)
       THEN /\ CONFIG_CACHE' = read_config_sheet(WS_CONFIG, rd)
            /\ CONFIG_TS' = now
            /\ last' = Reply(0, NoInput, "get_config_data",
                             IF rd = "ok" THEN "refreshed" ELSE "read_failed")
       ELSE /\ UNCHANGED <<CONFIG_CACHE, CONFIG_TS>>
            /\ last' = Reply(0, NoInput, "get_config_data", "cached")
    /\ UNCHANGED <<app, BOT_STATUS_ON, WS_CONFIG, WS_USER_DATA, WS_ORDERS, conv, user_data,
                   controls, clicks, credited, bc>>

\* handle_toggle_status_callback: `from` presses set_status_ON / set_status_OFF.
\* wr = "fail": find or update_cell raised; rd: the forced refresh's read.
handle_toggle_status_callback(from, new_status, wr, now, rd) ==
    /\ bc.pc # "running"
    /\ IF ~is_admin(from)
       THEN /\ last' = Reply(from, NoInput, "handle_toggle_status_callback",
                             "not_authorized")
            /\ UNCHANGED <<BOT_STATUS_ON, WS_CONFIG, CONFIG_CACHE, CONFIG_TS>>
       ELSE IF wr # "ok"
       THEN /\ last' = Reply(from, NoInput, "handle_toggle_status_callback", "failed")
            /\ UNCHANGED <<BOT_STATUS_ON, WS_CONFIG, CONFIG_CACHE, CONFIG_TS>>
       ELSE IF ~Has(WS_CONFIG, "bot_status")
       THEN /\ last' = Reply(from, NoInput, "handle_toggle_status_callback",
                             "key_not_found")
            /\ UNCHANGED <<BOT_STATUS_ON, WS_CONFIG, CONFIG_CACHE, CONFIG_TS>>
       ELSE /\ WS_CONFIG' = Put(WS_CONFIG, "bot_status", StatusStr(new_status))
            /\ BOT_STATUS_ON' = (new_status = "ON")
            /\ CONFIG_CACHE' = read_config_sheet(WS_CONFIG', rd)
            /\ CONFIG_TS' = now
            /\ last' = Reply(from, NoInput, "handle_toggle_status_callback", "updated")
    /\ UNCHANGED <<app, WS_USER_DATA, WS_ORDERS, conv, user_data, controls, clicks, credited,
                   bc>>

----------------------------------------------------------------------------
(* Cash Control of main(): the admin sets a user's balance to a new value. *)

\* resolve_user_id: the user id an identifier stands for, 0 for None.
\* found = FALSE: the sheet lookup found nothing or raised.
resolve_user_id(sheet, inp, found) ==
    IF inp.cls = "digits"
    THEN IF find_user_row(sheet, inp.val, found) # 0 THEN inp.val ELSE 0
    ELSE LET row == IF found THEN FirstNameRow(sheet, inp.name, 1) ELSE 0
         IN  IF row = 0 THEN 0 ELSE sheet[row].user_id

\* start_cash_control
start_cash_control(u, inp) ==
    /\ Routed(u, inp, "start_cash_control")
    /\ IF ~is_admin(u)
       THEN /\ conv' = SetConv(u, "cash_control", "END")
            /\ last' = Reply(u, inp, "start_cash_control", "not_authorized")
       ELSE /\ conv' = SetConv(u, "cash_control", "AWAIT_CASH_CONTROL_ID")
            /\ last' = Reply(u, inp, "start_cash_control", "send_user")
    /\ UNCHANGED <<app, BOT_STATUS_ON, WS_CONFIG, CONFIG_CACHE, CONFIG_TS, WS_USER_DATA,
                   WS_ORDERS, user_data, controls, clicks, credited, bc>>

\* cash_control_cancel
cash_control_cancel(u, inp) ==
    /\ Routed(u, inp, "cash_control_cancel")
    /\ user_data' = [user_data EXCEPT ![u] =
            PopAll(@, {"target_user_id", "target_username"})]
    /\ conv' = SetConv(u, "cash_control", "END")
    /\ last' = Reply(u, inp, "cash_control_cancel", "cancelled")
    /\ UNCHANGED <<app, BOT_STATUS_ON, WS_CONFIG, CONFIG_CACHE, CONFIG_TS, WS_USER_DATA,
                   WS_ORDERS, controls, clicks, credited, bc>>

\* cash_control_get_id
cash_control_get_id(u, inp, found, rd) ==
    /\ Routed(u, inp, "cash_control_get_id")
    /\ LET target_user_id == resolve_user_id(WS_USER_DATA, inp, found)
           data == get_user_data_from_sheet(WS_USER_DATA, target_user_id, rd)
       IN  IF target_user_id = 0 \/ data.user_id # target_user_id
           THEN /\ last' = Reply(u, inp, "cash_control_get_id", "not_found")
                /\ UNCHANGED <<conv, user_data>>
           ELSE /\ user_data' = [user_data EXCEPT ![u] =
                       Put(Put(@, "target_user_id", target_user_id),
                           "target_username", data.username)]
                /\ conv' = SetConv(u, "cash_control", "AWAIT_CASH_CONTROL_AMOUNT")
                /\ last' = Reply(u, inp, "cash_control_get_id", "send_new_balance")
    /\ UNCHANGED <<app, BOT_STATUS_ON, WS_CONFIG, CONFIG_CACHE, CONFIG_TS, WS_USER_DATA,
                   WS_ORDERS, controls, clicks, credited, bc>>

\* int(amount_str): [ok, v]
ParseAmount(inp) ==
    IF inp.cls \in {"digits", "signed"} THEN [ok |-> TRUE, v |-> inp.val]
    ELSE [ok |-> FALSE, v |-> 0]

\* cash_control_apply_amount
cash_control_apply_amount(u, inp, wr) ==
    /\ Routed(u, inp, "cash_control_apply_amount")
    /\ IF ~Has(user_data[u], "target_user_id")
       THEN /\ conv' = SetConv(u, "cash_control", "END")
            /\ last' = Reply(u, inp, "cash_control_apply_amount", "target_lost")
            /\ UNCHANGED <<user_data, WS_USER_DATA>>
       ELSE LET a == ParseAmount(inp)
                w == update_user_balance(WS_USER_DATA,
                         user_data[u]["target_user_id"], a.v, wr)
            IN  IF ~a.ok \/ a.v < 0
                THEN /\ last' = Reply(u, inp, "cash_control_apply_amount", "invalid_amount")
                     /\ UNCHANGED <<conv, user_data, WS_USER_DATA>>
                ELSE /\ a.v <= MaxBalance
                     /\ WS_USER_DATA' = w.sheet
                     /\ last' = Reply(u, inp, "cash_control_apply_amount",
                                      IF w.ok THEN "balance_updated" ELSE "update_failed")
                     /\ user_data' = [user_data EXCEPT ![u] =
                            PopAll(@, {"target_user_id", "target_username"})]
                     /\ conv' = SetConv(u, "cash_control", "END")
    /\ UNCHANGED <<app, BOT_STATUS_ON, WS_CONFIG, CONFIG_CACHE, CONFIG_TS, WS_ORDERS,
                   controls, clicks, credited, bc>>

\* start_user_search
start_user_search(u, inp) ==
    /\ Routed(u, inp, "start_user_search")
    /\ IF ~is_admin(u)
       THEN /\ conv' = SetConv(u, "user_search", "END")
            /\ last' = Reply(u, inp, "start_user_search", "not_authorized")
       ELSE /\ conv' = SetConv(u, "user_search", "AWAIT_USER_SEARCH_ID")
            /\ last' = Reply(u, inp, "start_user_search", "send_user")
    /\ UNCHANGED <<app, BOT_STATUS_ON, WS_CONFIG, CONFIG_CACHE, CONFIG_TS, WS_USER_DATA,
                   WS_ORDERS, user_data, controls, clicks, credited, bc>>

\* user_search_cancel
user_search_cancel(u, inp) ==
    /\ Routed(u, inp, "user_search_cancel")
    /\ conv' = SetConv(u, "user_search", "END")
    /\ last' = Reply(u, inp, "user_search_cancel", "cancelled")
    /\ UNCHANGED <<app, BOT_STATUS_ON, WS_CONFIG, CONFIG_CACHE, CONFIG_TS, WS_USER_DATA,
                   WS_ORDERS, user_data, controls, clicks, credited, bc>>

\* user_search_get_id
user_search_get_id(u, inp, found, rd) ==
    /\ Routed(u, inp, "user_search_get_id")
    /\ LET target_user_id == resolve_user_id(WS_USER_DATA, inp, found)
           data == get_user_data_from_sheet(WS_USER_DATA, target_user_id, rd)
       IN  IF target_user_id = 0 \/ data.user_id # target_user_id
           THEN /\ last' = Reply(u, inp, "user_search_get_id", "not_found")
                /\ UNCHANGED conv
           ELSE /\ conv' = SetConv(u, "user_search", "END")
                /\ last' = Reply(u, inp, "user_search_get_id", "user_found")
    /\ UNCHANGED <<app, BOT_STATUS_ON, WS_CONFIG, CONFIG_CACHE, CONFIG_TS, WS_USER_DATA,
                   WS_ORDERS, user_data, controls, clicks, credited, bc>>

----------------------------------------------------------------------------
(* Cash Control of AdminCommands: the admin adds to or subtracts from the  *)
(* balance that was read when the target was chosen.                       *)

\* AdminCommands.start_cash_control
AC_start_cash_control(u, inp) ==
    /\ Routed(u, inp, "AC_start_cash_control")
    /\ IF ~is_multi_admin(u)
       THEN /\ conv' = SetConv(u, "ac_cash_control", "END")
            /\ last' = Reply(u, inp, "AC_start_cash_control", "not_authorized")
       ELSE /\ conv' = SetConv(u, "ac_cash_control", "AWAIT_CASH_CONTROL_ID")
            /\ last' = Reply(u, inp, "AC_start_cash_control", "send_user")
    /\ UNCHANGED <<app, BOT_STATUS_ON, WS_CONFIG, CONFIG_CACHE, CONFIG_TS, WS_USER_DATA,
                   WS_ORDERS, user_data, controls, clicks, credited, bc>>

\* the three fields AdminCommands keeps for a chosen target
SetCashTarget(d, uid, name, balance) ==
    Put(Put(Put(d, "target_cash_control_id", uid),
            "target_cash_control_name", name),
        "current_coin_balance", balance)

CashTargetKeys ==
    {"target_cash_control_id", "target_cash_control_name", "current_coin_balance"}

\* AdminCommands.cash_control_get_id
AC_cash_control_get_id(u, inp, found, rd) ==
    /\ Routed(u, inp, "AC_cash_control_get_id")
    /\ LET user_id_int == resolve_user_id(WS_USER_DATA, inp, found)
           data == get_user_data_from_sheet(WS_USER_DATA, user_id_int, rd)
       IN  IF user_id_int = 0
           THEN /\ last' = Reply(u, inp, "AC_cash_control_get_id", "not_found")
                /\ UNCHANGED <<conv, user_data>>
           ELSE /\ user_data' = [user_data EXCEPT ![u] =
                       SetCashTarget(@, user_id_int,
                           IF inp.cls = "digits" THEN data.username ELSE inp.name,
                           data.coin_balance)]
                /\ conv' = SetConv(u, "ac_cash_control", "AWAIT_CASH_CONTROL_AMOUNT")
                /\ last' = Reply(u, inp, "AC_cash_control_get_id", "send_change")
    /\ UNCHANGED <<app, BOT_STATUS_ON, WS_CONFIG, CONFIG_CACHE, CONFIG_TS, WS_USER_DATA,
                   WS_ORDERS, controls, clicks, credited, bc>>

\* AdminCommands.handle_user_add_coins: inp.arg is the user id in the data
AC_handle_user_add_coins(u, inp, rd) ==
    /\ Routed(u, inp, "AC_handle_user_add_coins")
    /\ IF ~is_multi_admin(u)
       THEN /\ last' = Reply(u, inp, "AC_handle_user_add_coins", "not_authorized")
            /\ UNCHANGED <<conv, user_data>>
       ELSE /\ user_data' = [user_data EXCEPT ![u] =
                   SetCashTarget(@, inp.arg, "ID",
                       get_user_data_from_sheet(WS_USER_DATA, inp.arg, rd).coin_balance)]
            /\ conv' = SetConv(u, "ac_cash_control", "AWAIT_CASH_CONTROL_AMOUNT")
            /\ last' = Reply(u, inp, "AC_handle_user_add_coins", "send_change")
    /\ UNCHANGED <<app, BOT_STATUS_ON, WS_CONFIG, CONFIG_CACHE, CONFIG_TS, WS_USER_DATA,
                   WS_ORDERS, controls, clicks, credited, bc>>

\* old_balance of AdminCommands.cash_control_apply_amount: the balance
\* cash_control_get_id read and kept in the admin's user_data
CapturedBalance_Reread(u) ==
    Balance(WS_USER_DATA, user_data[u]["target_cash_control_id"])
CapturedBalance(u) == user_data[u]["current_coin_balance"]

\* re.match(r"([+\-]?\d+)", amount_text) and int(match.group(1)): [ok, v].
\* The pattern is matched at the start of the text and need not reach its end.
MatchAmount(inp) ==
    IF inp.cls \in {"digits", "signed", "numprefix"} THEN [ok |-> TRUE, v |-> inp.val]
    ELSE [ok |-> FALSE, v |-> 0]

\* AdminCommands.cash_control_apply_amount.  found: find_user_row located
\* the row; cell = "fail": update_cell raised, the handler is left by the
\* exception and the conversation keeps its state.
AC_cash_control_apply_amount(u, inp, found, cell) ==
    /\ Routed(u, inp, "AC_cash_control_apply_amount")
    /\ IF ~Has(user_data[u], "target_cash_control_id")
       THEN /\ conv' = SetConv(u, "ac_cash_control", "END")
            /\ last' = Reply(u, inp, "AC_cash_control_apply_amount", "target_lost")
            /\ UNCHANGED <<user_data, WS_USER_DATA>>
       ELSE LET coin_change == MatchAmount(inp)
                target_user_id == user_data[u]["target_cash_control_id"]
                user_row == find_user_row(WS_USER_DATA, target_user_id, found)
                old_balance == CapturedBalance(u)
                new_balance == old_balance + coin_change.v
            IN  IF ~coin_change.ok
                THEN /\ last' = Reply(u, inp, "AC_cash_control_apply_amount", "invalid_format")
                     /\ UNCHANGED <<conv, user_data, WS_USER_DATA>>
                ELSE IF user_row = 0
                THEN /\ last' = Reply(u, inp, "AC_cash_control_apply_amount", "row_not_located")
                     /\ user_data' = [user_data EXCEPT ![u] = PopAll(@, CashTargetKeys)]
                     /\ conv' = SetConv(u, "ac_cash_control", "END")
                     /\ UNCHANGED WS_USER_DATA
                ELSE IF new_balance < 0
                THEN /\ last' = Reply(u, inp, "AC_cash_control_apply_amount", "cannot_subtract")
                     /\ UNCHANGED <<conv, user_data, WS_USER_DATA>>
                ELSE IF cell = "fail"
                THEN /\ last' = Reply(u, inp, "AC_cash_control_apply_amount", "raised")
                     /\ UNCHANGED <<conv, user_data, WS_USER_DATA>>
                ELSE /\ new_balance <= MaxBalance
                     /\ WS_USER_DATA' =
                            [WS_USER_DATA EXCEPT ![user_row].coin_balance = new_balance]
                     /\ last' = Reply(u, inp, "AC_cash_control_apply_amount", "balance_updated")
                     /\ user_data' = [user_data EXCEPT ![u] = PopAll(@, CashTargetKeys)]
                     /\ conv' = SetConv(u, "ac_cash_control", "END")
    /\ UNCHANGED <<app, BOT_STATUS_ON, WS_CONFIG, CONFIG_CACHE, CONFIG_TS, WS_ORDERS,
                   controls, clicks, credited, bc>>

\* AdminCommands.cash_control_cancel
AC_cash_control_cancel(u, inp) ==
    /\ Routed(u, inp, "AC_cash_control_cancel")
    /\ conv' = SetConv(u, "ac_cash_control", "END")
    /\ last' = Reply(u, inp, "AC_cash_control_cancel", "cancelled")
    /\ UNCHANGED <<app, BOT_STATUS_ON, WS_CONFIG, CONFIG_CACHE, CONFIG_TS, WS_USER_DATA,
                   WS_ORDERS, user_data, controls, clicks, credited, bc>>

----------------------------------------------------------------------------
(* Broadcast of main().  execute_broadcast runs over several steps: the    *)
(* start up to the loop, one step per loop iteration, and the part after   *)
(* the loop.  bc holds its local variables meanwhile, and two records of   *)
(* what happened: attempts[i], the sends made to the i-th recipient, and   *)
(* raised, the number of sends that raised.                                *)

BcIdle ==
    [pc |-> "idle", impl |-> "", admin |-> 0, list |-> <<>>, idx |-> 0,
     sent |-> 0, failed |-> 0, attempts |-> <<>>, raised |-> 0]

BcStart(impl, admin, list) ==
    [pc |-> "running", impl |-> impl, admin |-> admin, list |-> list, idx |-> 1,
     sent |-> 0, failed |-> 0, attempts |-> [i \in 1..Len(list) |-> 0],
     raised |-> 0]

\* get_all_user_ids: column 1 of every row; [] when the read raised
get_all_user_ids(sheet, rd) ==
    IF rd = "ok" THEN [i \in 1..Len(sheet) |-> sheet[i].user_id] ELSE <<>>

\* start_broadcast
start_broadcast(u, inp) ==
    /\ Routed(u, inp, "start_broadcast")
    /\ IF ~is_admin(u)
       THEN /\ conv' = SetConv(u, "broadcast", "END")
            /\ last' = Reply(u, inp, "start_broadcast", "not_authorized")
       ELSE /\ conv' = SetConv(u, "broadcast", "AWAIT_BROADCAST_CONTENT")
            /\ last' = Reply(u, inp, "start_broadcast", "send_content")
    /\ UNCHANGED <<app, BOT_STATUS_ON, WS_CONFIG, CONFIG_CACHE, CONFIG_TS, WS_USER_DATA,
                   WS_ORDERS, user_data, controls, clicks, credited, bc>>

\* broadcast_cancel
broadcast_cancel(u, inp) ==
    /\ Routed(u, inp, "broadcast_cancel")
    /\ user_data' = [user_data EXCEPT ![u] = PopAll(@, {"broadcast_message"})]
    /\ conv' = SetConv(u, "broadcast", "END")
    /\ last' = Reply(u, inp, "broadcast_cancel", "cancelled")
    /\ UNCHANGED <<app, BOT_STATUS_ON, WS_CONFIG, CONFIG_CACHE, CONFIG_TS, WS_USER_DATA,
                   WS_ORDERS, controls, clicks, credited, bc>>

\* receive_broadcast_content
receive_broadcast_content(u, inp) ==
    /\ Routed(u, inp, "receive_broadcast_content")
    /\ IF inp.kind = "text"
       THEN /\ user_data' = [user_data EXCEPT ![u] =
                   Put(Put(@, "broadcast_message", inp), "broadcast_type", "text")]
            /\ conv' = SetConv(u, "broadcast", "CONFIRM_BROADCAST")
            /\ last' = Reply(u, inp, "receive_broadcast_content", "confirm")
       ELSE IF inp.kind = "photo" /\ inp.len > 0
       THEN /\ user_data' = [user_data EXCEPT ![u] =
                   Put(Put(Put(@, "broadcast_photo_id", "file_id"),
                           "broadcast_message", inp),
                       "broadcast_type", "photo_caption")]
            /\ conv' = SetConv(u, "broadcast", "CONFIRM_BROADCAST")
            /\ last' = Reply(u, inp, "receive_broadcast_content", "confirm")
       ELSE /\ last' = Reply(u, inp, "receive_broadcast_content", "invalid_content")
            /\ UNCHANGED <<conv, user_data>>
    /\ UNCHANGED <<app, BOT_STATUS_ON, WS_CONFIG, CONFIG_CACHE, CONFIG_TS, WS_USER_DATA,
                   WS_ORDERS, controls, clicks, credited, bc>>

\* execute_broadcast, up to the loop
execute_broadcast(u, inp, rd) ==
    /\ Routed(u, inp, "execute_broadcast")
    /\ IF inp.data = "cancel_broadcast"
       THEN /\ user_data' = [user_data EXCEPT ![u] =
                   PopAll(@, {"broadcast_message", "broadcast_photo_id"})]
            /\ conv' = SetConv(u, "broadcast", "END")
            /\ last' = Reply(u, inp, "execute_broadcast", "cancelled")
            /\ UNCHANGED bc
       ELSE IF ~Has(user_data[u], "broadcast_message")
       THEN /\ conv' = SetConv(u, "broadcast", "END")
            /\ last' = Reply(u, inp, "execute_broadcast", "message_not_found")
            /\ UNCHANGED <<bc, user_data>>
       ELSE /\ bc' = BcStart("main", u, get_all_user_ids(WS_USER_DATA, rd))
            /\ last' = Reply(u, inp, "execute_broadcast", "starting")
            /\ UNCHANGED <<conv, user_data>>
    /\ UNCHANGED <<app, BOT_STATUS_ON, WS_CONFIG, CONFIG_CACHE, CONFIG_TS, WS_USER_DATA,
                   WS_ORDERS, controls, clicks, credited>>

\* the loop body of execute_broadcast makes a send for this content
SendsSomething(d) ==
    \/ Has(d, "broadcast_type") /\ d["broadcast_type"] = "text"
    \/ /\ Has(d, "broadcast_type") /\ d["broadcast_type"] = "photo_caption"
       /\ Has(d, "broadcast_photo_id")

\* where the loop goes after an iteration: `for user_id in user_ids` moves
\* to the next recipient whether or not the send raised
NextRecipient_AbortOnFailure(b, raised) == IF raised THEN Len(b.list) + 1 ELSE b.idx + 1
NextRecipient(b, raised) == b.idx + 1

\* the counters after an iteration: `sent_count += 1` in the try block,
\* `failed_count += 1` in the except block
Tally_CountBoth(b, raised) == [sent |-> b.sent + 1, failed |-> IF raised THEN b.failed + 1 ELSE b.failed]
Tally(b, raised) ==
    IF raised THEN [sent |-> b.sent, failed |-> b.failed + 1]
    ELSE [sent |-> b.sent + 1, failed |-> b.failed]

\* execute_broadcast, one iteration of the loop; out = "raise": the send raised
execute_broadcast_send(out) ==
    /\ bc.pc = "running" /\ bc.impl = "main"
    /\ bc.idx <= Len(bc.list)
    /\ LET sends == SendsSomething(user_data[bc.admin])
           raised == sends /\ out = "raise"
           t == Tally(bc, raised)
       IN  /\ (~sends => out = "ok")
           /\ bc' = [bc EXCEPT !.idx = NextRecipient(bc, raised),
                               !.sent = t.sent, !.failed = t.failed,
                               !.attempts[bc.idx] = IF sends THEN @ + 1 ELSE @,
                               !.raised = IF raised THEN @ + 1 ELSE @]
    /\ UNCHANGED <<app, BOT_STATUS_ON, WS_CONFIG, CONFIG_CACHE, CONFIG_TS, WS_USER_DATA,
                   WS_ORDERS, conv, user_data, controls, clicks, credited, last>>

\* execute_broadcast, after the loop; fin = "raise": the report to the admin
\* raised and the handler was left by the exception
execute_broadcast_finish(fin) ==
    /\ bc.pc = "running" /\ bc.impl = "main"
    /\ bc.idx > Len(bc.list)
    /\ bc' = [bc EXCEPT !.pc = "done"]
    /\ IF fin = "raise"
       THEN /\ last' = Reply(bc.admin, NoInput, "execute_broadcast", "raised")
            /\ UNCHANGED <<conv, user_data>>
       ELSE /\ last' = Reply(bc.admin, NoInput, "execute_broadcast", "finished")
            /\ user_data' = [user_data EXCEPT ![bc.admin] =
                   PopAll(@, {"broadcast_message", "broadcast_photo_id"})]
            /\ conv' = SetConv(bc.admin, "broadcast", "END")
    /\ UNCHANGED <<app, BOT_STATUS_ON, WS_CONFIG, CONFIG_CACHE, CONFIG_TS, WS_USER_DATA,
                   WS_ORDERS, controls, clicks, credited>>

----------------------------------------------------------------------------
(* Broadcast of AdminCommands.                                             *)

\* AdminCommands.get_all_users, a callable handed to the constructor: the
\* user ids of the registered users
get_all_users(sheet) == [i \in 1..Len(sheet) |-> sheet[i].user_id]

\* AdminCommands._clear_broadcast_context
BroadcastContextKeys ==
    {"broadcast_type", "broadcast_message_type", "broadcast_content",
     "broadcast_photo", "broadcast_video", "broadcast_document",
     "broadcast_caption", "broadcast_target_user_id", "broadcast_target_username"}

clear_broadcast_context(d) == PopAll(d, BroadcastContextKeys)

\* AdminCommands.start_broadcast_type
AC_start_broadcast_type(u, inp) ==
    /\ Routed(u, inp, "AC_start_broadcast_type")
    /\ IF ~is_multi_admin(u)
       THEN /\ conv' = SetConv(u, "ac_broadcast", "END")
            /\ last' = Reply(u, inp, "AC_start_broadcast_type", "not_authorized")
       ELSE /\ conv' = SetConv(u, "ac_broadcast", "AWAIT_BROADCAST_TYPE")
            /\ last' = Reply(u, inp, "AC_start_broadcast_type", "choose_type")
    /\ UNCHANGED <<app, BOT_STATUS_ON, WS_CONFIG, CONFIG_CACHE, CONFIG_TS, WS_USER_DATA,
                   WS_ORDERS, user_data, controls, clicks, credited, bc>>

\* AdminCommands.handle_broadcast_type
AC_handle_broadcast_type(u, inp) ==
    /\ Routed(u, inp, "AC_handle_broadcast_type")
    /\ LET broadcast_type == IF inp.data = "broadcast_type_all" THEN "all" ELSE "single"
       IN  /\ user_data' = [user_data EXCEPT ![u] = Put(@, "broadcast_type", broadcast_type)]
           /\ conv' = SetConv(u, "ac_broadcast",
                        IF broadcast_type = "all" THEN "AWAIT_BROADCAST_MESSAGE"
                        ELSE "AWAIT_BROADCAST_TARGET_USER")
           /\ last' = Reply(u, inp, "AC_handle_broadcast_type", broadcast_type)
    /\ UNCHANGED <<app, BOT_STATUS_ON, WS_CONFIG, CONFIG_CACHE, CONFIG_TS, WS_USER_DATA,
                   WS_ORDERS, controls, clicks, credited, bc>>

\* AdminCommands.handle_broadcast_target_user
AC_handle_broadcast_target_user(u, inp, found) ==
    /\ Routed(u, inp, "AC_handle_broadcast_target_user")
    /\ LET row == IF ~found THEN 0
                  ELSE IF inp.cls = "digits" THEN FirstRow(WS_USER_DATA, inp.val, 1)
                  ELSE IF inp.cls = "at" THEN FirstNameRow(WS_USER_DATA, inp.name, 1)
                  ELSE 0
       IN  IF inp.cls \notin {"digits", "at"}
           THEN /\ last' = Reply(u, inp, "AC_handle_broadcast_target_user", "invalid_input")
                /\ UNCHANGED <<conv, user_data>>
           ELSE IF row = 0
           THEN /\ last' = Reply(u, inp, "AC_handle_broadcast_target_user", "not_found")
                /\ UNCHANGED <<conv, user_data>>
           ELSE /\ user_data' = [user_data EXCEPT ![u] =
                       Put(Put(@, "broadcast_target_user_id", WS_USER_DATA[row].user_id),
                           "broadcast_target_username", WS_USER_DATA[row].username)]
                /\ conv' = SetConv(u, "ac_broadcast", "AWAIT_BROADCAST_MESSAGE")
                /\ last' = Reply(u, inp, "AC_handle_broadcast_target_user", "target_found")
    /\ UNCHANGED <<app, BOT_STATUS_ON, WS_CONFIG, CONFIG_CACHE, CONFIG_TS, WS_USER_DATA,
                   WS_ORDERS, controls, clicks, credited, bc>>

\* AdminCommands.receive_broadcast_message
AC_receive_broadcast_message(u, inp) ==
    /\ Routed(u, inp, "AC_receive_broadcast_message")
    /\ user_data' = [user_data EXCEPT ![u] =
           IF inp.kind = "text"
           THEN Put(Put(@, "broadcast_message_type", "text"), "broadcast_content", inp)
           ELSE Put(Put(Put(@, "broadcast_message_type", "photo"),
                        "broadcast_photo", "file_id"),
                    "broadcast_caption", inp.len)]
    /\ conv' = SetConv(u, "ac_broadcast", "AWAIT_BROADCAST_CONFIRM")
    /\ last' = Reply(u, inp, "AC_receive_broadcast_message", "preview")
    /\ UNCHANGED <<app, BOT_STATUS_ON, WS_CONFIG, CONFIG_CACHE, CONFIG_TS, WS_USER_DATA,
                   WS_ORDERS, controls, clicks, credited, bc>>

\* AdminCommands.confirm_broadcast, up to the loop (type "all"), or the whole
\* handler (single recipient)
AC_confirm_broadcast(u, inp, out) ==
    /\ Routed(u, inp, "AC_confirm_broadcast")
    /\ IF ~Has(user_data[u], "broadcast_type") \/ user_data[u]["broadcast_type"] = "all"
       THEN /\ out = "ok"
            /\ bc' = BcStart("ac", u, get_all_users(WS_USER_DATA))
            /\ last' = Reply(u, inp, "AC_confirm_broadcast", "broadcasting")
            /\ UNCHANGED <<conv, user_data>>
       ELSE /\ last' = Reply(u, inp, "AC_confirm_broadcast",
                             IF out = "ok" THEN "sent" ELSE "failed_to_send")
            /\ user_data' = [user_data EXCEPT ![u] = clear_broadcast_context(@)]
            /\ conv' = SetConv(u, "ac_broadcast", "END")
            /\ UNCHANGED bc
    /\ UNCHANGED <<app, BOT_STATUS_ON, WS_CONFIG, CONFIG_CACHE, CONFIG_TS, WS_USER_DATA,
                   WS_ORDERS, controls, clicks, credited>>

\* AdminCommands.confirm_broadcast, one iteration of the loop.  out:
\*   "ok"          the send went through
\*   "raise"       the send raised
\*   "raise_after" the send went through and `successful` was incremented,
\*                 then the progress edit (every PROGRESS_EVERY successes)
\*                 raised
AC_confirm_broadcast_send(out) ==
    /\ bc.pc = "running" /\ bc.impl = "ac"
    /\ bc.idx <= Len(bc.list)
    /\ out = "raise_after" => (bc.sent + 1) % PROGRESS_EVERY = 0
    /\ bc' = [bc EXCEPT !.idx = @ + 1,
                        !.sent = IF out = "raise" THEN @ ELSE @ + 1,
                        !.failed = IF out = "ok" THEN @ ELSE @ + 1,
                        !.attempts[bc.idx] = @ + 1,
                        !.raised = IF out = "raise" THEN @ + 1 ELSE @]
    /\ UNCHANGED <<app, BOT_STATUS_ON, WS_CONFIG, CONFIG_CACHE, CONFIG_TS, WS_USER_DATA,
                   WS_ORDERS, conv, user_data, controls, clicks, credited, last>>

\* AdminCommands.confirm_broadcast, after the loop.  The report divides by
\* total_users; fin = "raise": the edit raised.  Either way the handler is
\* left by the exception before _clear_broadcast_context.
AC_confirm_broadcast_finish(fin) ==
    /\ bc.pc = "running" /\ bc.impl = "ac"
    /\ bc.idx > Len(bc.list)
    /\ bc' = [bc EXCEPT !.pc = "done"]
    /\ IF Len(bc.list) = 0 \/ fin = "raise"
       THEN /\ last' = Reply(bc.admin, NoInput, "AC_confirm_broadcast", "raised")
            /\ UNCHANGED <<conv, user_data>>
       ELSE /\ last' = Reply(bc.admin, NoInput, "AC_confirm_broadcast", "completed")
            /\ user_data' = [user_data EXCEPT ![bc.admin] = clear_broadcast_context(@)]
            /\ conv' = SetConv(bc.admin, "ac_broadcast", "END")
    /\ UNCHANGED <<app, BOT_STATUS_ON, WS_CONFIG, CONFIG_CACHE, CONFIG_TS, WS_USER_DATA,
                   WS_ORDERS, controls, clicks, credited>>

\* AdminCommands.cancel_broadcast, cancel_broadcast_action and
\* cancel_broadcast_action_callback: the same body under three names
AC_cancel_broadcast(u, inp, cb) ==
    /\ cb \in {"AC_cancel_broadcast", "AC_cancel_broadcast_action",
               "AC_cancel_broadcast_action_callback"}
    /\ Routed(u, inp, cb)
    /\ user_data' = [user_data EXCEPT ![u] = clear_broadcast_context(@)]
    /\ conv' = SetConv(u, "ac_broadcast", "END")
    /\ last' = Reply(u, inp, cb, "cancelled")
    /\ UNCHANGED <<app, BOT_STATUS_ON, WS_CONFIG, CONFIG_CACHE, CONFIG_TS, WS_USER_DATA,
                   WS_ORDERS, controls, clicks, credited, bc>>

----------------------------------------------------------------------------
(* Initial states and inputs.                                              *)

Unset == [cls |-> "unset", q |-> 0]

\* a config dict from a table of entries, leaving out the unset ones
Config(entries) ==
    [k \in {x \in DOMAIN entries : entries[x].cls # "unset"} |-> entries[k]]

NoConversation == [u \in Users |-> [c \in ConvNames |-> "NONE"]]
NoUserData == [u \in Users |-> EmptyDict]
NoReply == Reply(0, NoInput, "", "")

BTN_PHONE == Digits(9, 9)

----------------------------------------------------------------------------
(* Price resolution: a customer opens a purchase under every combination   *)
(* of price and rate settings.                                             *)

InitPrice ==
    /\ app = "main"
    /\ \E price \in {Unset, [cls |-> "empty", q |-> 0], TextStr, IntStr(-500)}
                      \cup {IntStr(500 * k) : k \in 0..MaxPriceUnits},
          star \in {Unset, TextStr, NumStr(0), NumStr(-1), IntStr(500), IntStr(1000),
                    NumStr(750 * RateScale + 1)},
          seg \in {Unset, TextStr, NumStr(0), NumStr(-1), IntStr(500), IntStr(1000),
                   NumStr(750 * RateScale + 1)} :
          CONFIG_CACHE = Config([star_100 |-> price, coin_rate_star |-> star,
                                 coin_rate_100 |-> seg])
    /\ WS_USER_DATA = Sheet(MaxBalance)
    /\ WS_CONFIG = CONFIG_CACHE
    /\ BOT_STATUS_ON = TRUE
    /\ CONFIG_TS = 0
    /\ WS_ORDERS = <<>>
    /\ conv = NoConversation
    /\ user_data = NoUserData
    /\ controls = <<>> /\ clicks = <<>> /\ credited = <<>>
    /\ bc = BcIdle
    /\ last = NoReply

NextPrice ==
    \/ \E rdBan \in ReadOutcomes, rdBal \in ReadOutcomes :
          start_product_purchase(Customer, Callback("star_100", 0), rdBan, rdBal)
    \/ \E inp \in {BTN_PHONE, Digits(4, 4), BTN_CANCEL_ORDER} :
          receive_phone_number(Customer, inp)

SpecPrice == InitPrice /\ [][NextPrice]_vars

\* the rate a setting stands for, in units of 1 / RateScale: its value, and
\* 1000 when it is unset or not positive
RateOf(config, k) ==
    IF Has(config, k) /\ config[k].cls = "num" /\ config[k].q > 0
    THEN config[k].q
    ELSE 1000 * RateScale

SettingIsNumberOrUnset(config, k) == Has(config, k) => config[k].cls = "num"

\* max(1, floor(price / rate))
FloorClamp(price, rate) == Max(1, (price * RateScale) \div rate)

----------------------------------------------------------------------------
(* Purchase: a customer buys while the admin may set the balance anew.     *)

InitPurchase ==
    /\ app = "main"
    /\ CONFIG_CACHE = Config([star_100 |-> IntStr(1000),
                              premium_3 |-> IntStr(500 * MaxPriceUnits)])
    /\ \E b \in 0..MaxBalance : WS_USER_DATA = Sheet(b)
    /\ WS_CONFIG = CONFIG_CACHE
    /\ BOT_STATUS_ON = TRUE
    /\ CONFIG_TS = 0
    /\ WS_ORDERS = <<>>
    /\ conv = [NoConversation EXCEPT ![ADMIN_ID]["cash_control"] = "AWAIT_CASH_CONTROL_AMOUNT"]
    /\ user_data = [NoUserData EXCEPT ![ADMIN_ID] =
                       Put(Put(EmptyDict, "target_user_id", Customer),
                           "target_username", UsernameOf(Customer))]
    /\ controls = <<>> /\ clicks = <<>> /\ credited = <<>>
    /\ bc = BcIdle
    /\ last = NoReply

CustomerPurchaseInputs ==
    {Callback("star_100", 0), Callback("premium_3", 0), BTN_PHONE, BTN_CANCEL_ORDER,
     AtName(UsernameOf(Customer))}

NextPurchase ==
    \/ \E inp \in CustomerPurchaseInputs, rdBan \in {"ok"}, rdBal \in ReadOutcomes :
          start_product_purchase(Customer, inp, rdBan, rdBal)
    \/ \E inp \in CustomerPurchaseInputs : receive_phone_number(Customer, inp)
    \/ \E inp \in CustomerPurchaseInputs, rd \in ReadOutcomes,
          wr \in WriteOutcomes, lg \in {"ok", "fail"} :
          receive_premium_username(Customer, inp, rd, wr, lg)
    \/ \E n \in {0, MaxBalance} :
          cash_control_apply_amount(ADMIN_ID, Digits(n, 1), "ok")

SpecPurchase == InitPurchase /\ [][NextPurchase]_vars

\* the finalize step of u ran past its input validation
Finalized(u) ==
    /\ conv[u]["product_purchase"] = "WAITING_FOR_USERNAME"
    /\ conv'[u]["product_purchase"] = "NONE"
    /\ last'.cb = "receive_premium_username"

\* C4: a step that appends an order is a finalize step that wrote the buyer's
\* balance down by the coin price and had the write confirmed.
C4_OrderOnlyAfterDebit ==
    [][Len(WS_ORDERS') > Len(WS_ORDERS) =>
          LET o == WS_ORDERS'[Len(WS_ORDERS')]
              u == o.user_id
          IN  /\ Finalized(u)
              /\ last'.reply = "purchase_successful"
              /\ Balance(WS_USER_DATA', u) =
                    Balance(WS_USER_DATA, u) - user_data[u]["product_details"].price_coin
              /\ Balance(WS_USER_DATA', u) >= 0]_vars

C4_Witness ==
    /\ Len(WS_ORDERS) > 0
    /\ last.cb = "receive_premium_username"
    /\ last.reply = "purchase_successful"

\* C5: a finalize step that finds the balance below the coin price leaves the
\* balance as it is and appends a FAILED_INSUFFICIENT_FUNDS record.
C5_InsufficientFundsAudited ==
    [][\A u \in Users :
          (Finalized(u) /\ last'.reply = "insufficient_coins")
          => /\ WS_USER_DATA' = WS_USER_DATA
             /\ Len(WS_ORDERS') = Len(WS_ORDERS) + 1
             /\ WS_ORDERS'[Len(WS_ORDERS')].status = "FAILED_INSUFFICIENT_FUNDS"]_vars

----------------------------------------------------------------------------
(* Broadcast: the admin drafts, confirms or cancels broadcasts to a sheet  *)
(* of up to MaxRecipients users, under either set of handlers.             *)

InitBroadcast ==
    /\ app \in {"main", "admin_commands"}
    /\ CONFIG_CACHE = EmptyDict
    /\ \E n \in 0..MaxRecipients : WS_USER_DATA = [i \in 1..n |-> Row(i, UsernameOf(i), 0)]
    /\ WS_CONFIG = CONFIG_CACHE
    /\ BOT_STATUS_ON = TRUE
    /\ CONFIG_TS = 0
    /\ WS_ORDERS = <<>>
    /\ conv = NoConversation
    /\ user_data = NoUserData
    /\ controls = <<>> /\ clicks = <<>> /\ credited = <<>>
    /\ bc = BcIdle
    /\ last = NoReply

NextBroadcast ==
    \/ \E u \in Users :
          \/ start_broadcast(u, BTN_BROADCAST)
          \/ AC_start_broadcast_type(u, BTN_BROADCAST)
    \/ broadcast_cancel(ADMIN_ID, BTN_ADMIN_CANCEL)
    \/ \E inp \in {BTN_ADMIN_CANCEL, Prose, PhotoMsg(0), PhotoMsg(9)} :
          receive_broadcast_content(ADMIN_ID, inp)
    \/ \E inp \in {Callback("confirm_broadcast", 0), Callback("cancel_broadcast", 0)},
          rd \in ReadOutcomes :
          execute_broadcast(ADMIN_ID, inp, rd)
    \/ \E out \in {"ok", "raise"} : execute_broadcast_send(out)
    \/ \E fin \in {"ok", "raise"} : execute_broadcast_finish(fin)
    \/ \E inp \in {Callback("broadcast_type_all", 0), Callback("broadcast_type_single", 0)} :
          AC_handle_broadcast_type(ADMIN_ID, inp)
    \/ \E inp \in {Digits(Customer, 1), AtName("@nobody"), BTN_AC_CANCEL} :
          AC_handle_broadcast_target_user(ADMIN_ID, inp, TRUE)
    \/ \E inp \in {Prose, PhotoMsg(0), BTN_AC_CANCEL} :
          AC_receive_broadcast_message(ADMIN_ID, inp)
    \/ \E out \in {"ok", "raise"} :
          AC_confirm_broadcast(ADMIN_ID, Callback("broadcast_confirm", 0), out)
    \/ \E out \in {"ok", "raise"} \cup {"raise_after"} : AC_confirm_broadcast_send(out)
    \/ \E fin \in {"ok", "raise"} : AC_confirm_broadcast_finish(fin)
    \/ AC_cancel_broadcast(ADMIN_ID, Callback("broadcast_cancel", 0), "AC_cancel_broadcast")
    \/ AC_cancel_broadcast(ADMIN_ID, BTN_AC_CANCEL, "AC_cancel_broadcast_action")
    \/ AC_cancel_broadcast(ADMIN_ID, Callback("broadcast_cancel", 0),
                           "AC_cancel_broadcast_action_callback")

SpecBroadcast == InitBroadcast /\ [][NextBroadcast]_vars

\* C8: while execute_broadcast runs, the recipients gone through are counted
\* once each, as sent or as failed, and failed is the number of sends that
\* raised; so a run over N recipients with K raising sends ends with
\* sent = N - K and failed = K.
C8_TallyIsExact ==
    (bc.impl = "main" /\ bc.pc \in {"running", "done"})
    => /\ bc.failed = bc.raised
       /\ bc.sent = (bc.idx - 1) - bc.raised
       /\ bc.pc = "done" => /\ bc.idx - 1 = Len(bc.list)
                            /\ bc.sent + bc.failed = Len(bc.list)

\* a finished run with a failure before a success
C8_Witness ==
    /\ bc.impl = "main" /\ bc.pc = "done"
    /\ Len(bc.list) >= 3
    /\ bc.failed >= 1 /\ bc.sent >= 2
    /\ last.reply = "finished"

\* C9: in a broadcast run of either module, every recipient the loop has
\* gone past got exactly one send and no recipient ahead of it got any; the
\* loop goes through the whole list whatever raised.
C9_OneAttemptEach ==
    bc.pc \in {"running", "done"}
    => /\ \A i \in 1..Len(bc.list) :
             bc.attempts[i] = IF i < bc.idx THEN 1 ELSE 0
       /\ bc.pc = "done" => bc.idx = Len(bc.list) + 1

\* a finished run of AdminCommands.confirm_broadcast in which a send raised
C9_Witness ==
    /\ bc.pc = "done"
    /\ bc.impl = "ac"
    /\ Len(bc.list) >= 3
    /\ bc.raised >= 1
    /\ bc.sent >= 1

----------------------------------------------------------------------------
(* Approval: a customer submits a receipt; the admin presses the buttons   *)
(* of the control message, also before an earlier press has been handled.  *)

Amounts(items) == [cls |-> "amounts", q |-> 0, items |-> items]

InitApproval ==
    /\ app = "main"
    /\ CONFIG_CACHE = [receipt_approve_amounts |-> Amounts({1000})]
    /\ WS_USER_DATA = Sheet(0)
    /\ WS_CONFIG = CONFIG_CACHE
    /\ BOT_STATUS_ON = TRUE
    /\ CONFIG_TS = 0
    /\ WS_ORDERS = <<>>
    /\ conv = [NoConversation EXCEPT ![Customer]["coin_purchase"] = "WAITING_FOR_RECEIPT"]
    /\ user_data = [NoUserData EXCEPT ![Customer] =
                       Put(EmptyDict, "selected_coinpkg", "buycoin_1_1000")]
    /\ controls = <<>> /\ clicks = <<>> /\ credited = <<>>
    /\ bc = BcIdle
    /\ last = NoReply

NextApproval ==
    \/ \E inp \in {Prose, PhotoMsg(0), BTN_CANCEL_ORDER}, send \in {"ok", "fail"},
          name_mark \in BOOLEAN :
          receive_receipt(Customer, inp, "ok", send, name_mark)
    \/ \E m \in 1..Len(controls), from \in Users :
          \/ Click(m, from, "rpa", 1000, MaxClicks)
          \/ Click(m, from, "rpd", 0, MaxClicks)
    \/ \E rd \in ReadOutcomes, wr \in WriteOutcomes :
          admin_approve_receipt_callback(rd, wr)
    \/ admin_deny_receipt_callback

SpecApproval == InitApproval /\ [][NextApproval]_vars

\* the step handles a click on a control message whose text, as the click
\* carries it, holds a terminal marker
HandlesMarkedClick ==
    /\ clicks # <<>>
    /\ clicks' = Tail(clicks)
    /\ Head(clicks).text.marked

\* C3: a step that handles an Approve or Deny click on a control message
\* carrying a terminal marker changes no balance and appends no record.
C3_MarkedClickIsNoOp ==
    [][HandlesMarkedClick =>
          /\ WS_USER_DATA' = WS_USER_DATA
          /\ WS_ORDERS' = WS_ORDERS
          /\ credited' = credited
          /\ last'.reply \in {"already_processed", "not_authorized"}]_vars

\* an Approve pressed on an approved message has been answered
C3_Witness ==
    /\ last.cb = "admin_approve_receipt_callback"
    /\ last.reply = "already_processed"
    /\ \E m \in 1..Len(controls) : credited[m] = 1 /\ controls[m].text.stage = "notice"

\* C2: however the Approve presses on one control message are timed, the
\* message is credited at most once.
C2_OneCreditPerMessage ==
    \A m \in 1..Len(credited) : credited[m] <= 1

----------------------------------------------------------------------------
(* Conversations.  A conversation's state and session fields belong to    *)
(* one user, so the customer's flows (top-up, purchase) and the admin's    *)
(* flows (cash control, user search, broadcast) are explored separately:   *)
(* SpecConv is the customer alone, SpecAdminConv the admin alone.  Each    *)
(* sends its flow's inputs and the Cancel key of the keyboard the flow     *)
(* shows.  cash_control_cancel, user_search_cancel and                     *)
(* AC_cash_control_cancel are in neither Next: in every state of their     *)
(* conversations a handler registered before them takes every text, so no  *)
(* update reaches them.                                                    *)

InitConv ==
    /\ app \in {"main", "admin_commands"}
    /\ CONFIG_CACHE = Config([star_100 |-> IntStr(1000)])
    /\ WS_USER_DATA = Sheet(1)
    /\ WS_CONFIG = CONFIG_CACHE
    /\ BOT_STATUS_ON = TRUE
    /\ CONFIG_TS = 0
    /\ WS_ORDERS = <<>>
    /\ conv = NoConversation
    /\ user_data = NoUserData
    /\ controls = <<>> /\ clicks = <<>> /\ credited = <<>>
    /\ bc = BcIdle
    /\ last = NoReply

NextConv ==
    \/ \E inp \in {BTN_PAYMENT, Callback("payment_back", 0)} :
          handle_payment_method(Customer, inp, "ok")
    \/ handle_coin_package_select(Customer, Callback("buycoin_1_1000", 0))
    \/ start_payment_conv(Customer, Callback("pay_kpay", 0))
    \/ back_to_payment_menu(Customer, Callback("payment_back", 0))
    \/ \E inp \in {Prose, BTN_CANCEL_ORDER, BTN_PAYMENT} :
          receive_receipt(Customer, inp, "ok", "fail", FALSE)
    \/ cancel_order(Customer, BTN_CANCEL_ORDER)
    \/ start_product_purchase(Customer, Callback("star_100", 0), "ok", "ok")
    \/ \E inp \in {BTN_PHONE, BTN_CANCEL_ORDER} : receive_phone_number(Customer, inp)
    \/ \E inp \in {AtName(UsernameOf(Customer)), BTN_CANCEL_ORDER} :
          receive_premium_username(Customer, inp, "ok", "ok", "ok")

NextAdminConv ==
    \/ start_cash_control(ADMIN_ID, BTN_CASH_CONTROL)
    \/ \E inp \in {Digits(Customer, 1), BTN_ADMIN_CANCEL} :
          cash_control_get_id(ADMIN_ID, inp, TRUE, "ok")
    \/ \E inp \in {Digits(0, 1), BTN_ADMIN_CANCEL} :
          cash_control_apply_amount(ADMIN_ID, inp, "ok")
    \/ start_user_search(ADMIN_ID, Button("User Search"))
    \/ \E inp \in {Digits(Customer, 1), BTN_ADMIN_CANCEL} :
          user_search_get_id(ADMIN_ID, inp, TRUE, "ok")
    \/ start_broadcast(ADMIN_ID, BTN_BROADCAST)
    \/ \E inp \in {PhotoMsg(9), BTN_ADMIN_CANCEL} :
          receive_broadcast_content(ADMIN_ID, inp)
    \/ broadcast_cancel(ADMIN_ID, BTN_ADMIN_CANCEL)
    \/ \E inp \in {Callback("confirm_broadcast", 0), Callback("cancel_broadcast", 0)} :
          execute_broadcast(ADMIN_ID, inp, "ok")
    \/ execute_broadcast_send("ok")
    \/ execute_broadcast_finish("ok")
    \/ AC_start_cash_control(ADMIN_ID, BTN_CASH_CONTROL)
    \/ \E inp \in {Digits(Customer, 1), BTN_AC_CANCEL} :
          AC_cash_control_get_id(ADMIN_ID, inp, TRUE, "ok")
    \/ \E inp \in {Signed(-1), NumPrefix(1), BTN_AC_CANCEL} :
          AC_cash_control_apply_amount(ADMIN_ID, inp, TRUE, "ok")
    \/ AC_handle_user_add_coins(ADMIN_ID, Callback("user_add_", Customer), "ok")
    \/ AC_start_broadcast_type(ADMIN_ID, BTN_BROADCAST)
    \/ \E inp \in {Callback("broadcast_type_all", 0), Callback("broadcast_type_single", 0)} :
          AC_handle_broadcast_type(ADMIN_ID, inp)
    \/ \E inp \in {Digits(Customer, 1), BTN_AC_CANCEL} :
          AC_handle_broadcast_target_user(ADMIN_ID, inp, TRUE)
    \/ \E inp \in {Prose, BTN_AC_CANCEL} : AC_receive_broadcast_message(ADMIN_ID, inp)
    \/ AC_confirm_broadcast(ADMIN_ID, Callback("broadcast_confirm", 0), "ok")
    \/ AC_confirm_broadcast_send("ok")
    \/ AC_confirm_broadcast_finish("ok")
    \/ AC_cancel_broadcast(ADMIN_ID, Callback("broadcast_cancel", 0), "AC_cancel_broadcast")
    \/ AC_cancel_broadcast(ADMIN_ID, BTN_AC_CANCEL, "AC_cancel_broadcast_action")
    \/ AC_cancel_broadcast(ADMIN_ID, Callback("broadcast_cancel", 0),
                           "AC_cancel_broadcast_action_callback")

SpecConv == InitConv /\ [][NextConv]_vars

SpecAdminConv == InitConv /\ [][NextAdminConv]_vars

CancelLabels == {BTN_CANCEL_ORDER.label, BTN_ADMIN_CANCEL.label, BTN_AC_CANCEL.label}

CancelCallbacks ==
    {"cancel_order", "cash_control_cancel", "user_search_cancel", "broadcast_cancel",
     "AC_cash_control_cancel", "AC_cancel_broadcast_action"}

Idle(u) == \A c \in ConvNames : conv[u][c] = "NONE"

\* C6: when the input handled last was the Cancel key of the flow the user
\* was in, the handler that took it was a cancel handler and the user is in
\* no flow.
C6_CancelIsHandledAsCancel ==
    last.label \in CancelLabels
    => /\ last.cb \in CancelCallbacks
       /\ Idle(last.user)

\* the session fields a flow collects
FlowFields(c) ==
    CASE c = "coin_purchase" -> {"selected_coinpkg", "last_receipt_meta"}
      [] c = "product_purchase" -> {"product_details", "purchase_phone"}
      [] c = "cash_control" -> {"target_user_id", "target_username"}
      [] c = "broadcast" -> {"broadcast_message", "broadcast_type", "broadcast_photo_id"}
      [] c = "ac_cash_control" -> CashTargetKeys
      [] c = "ac_broadcast" -> BroadcastContextKeys
      [] OTHER -> {}

ActiveHandlers == {Handlers(app)[i].name : i \in 1..Len(Handlers(app))}

\* C7: a user who is in no state of a flow, having cancelled or completed
\* it, holds none of the session fields that flow collects.
C7_FieldsAbsentWhenIdle ==
    \A u \in Users : \A c \in ActiveHandlers :
        conv[u][c] = "NONE" => FlowFields(c) \cap DOMAIN user_data[u] = {}

----------------------------------------------------------------------------
(* The ledger: every operation that writes a balance, interleaved.  The    *)
(* customer has sent a receipt, whose control message waits for the        *)
(* admin, and buys a product; the admin approves the receipt and runs cash *)
(* control, which is the set-the-balance flow of main() or, when           *)
(* AdminCommands is registered, its +/- flow.  log_order is taken in the   *)
(* outcome where append_row raises: the order log plays no part in any     *)
(* balance, and an empty log leaves the number of purchases unlimited.     *)

Init ==
    /\ app \in {"main", "admin_commands"}
    /\ CONFIG_CACHE = Config([star_100 |-> IntStr(1000),
                              receipt_approve_amounts |-> Amounts({1000})])
    /\ WS_USER_DATA = Sheet(1)
    /\ WS_CONFIG = CONFIG_CACHE
    /\ BOT_STATUS_ON = TRUE
    /\ CONFIG_TS = 0
    /\ WS_ORDERS = <<>>
    /\ conv = NoConversation
    /\ user_data = [NoUserData EXCEPT ![Customer] =
                       Put(Put(EmptyDict, "selected_coinpkg", "buycoin_1_1000"),
                           "last_receipt_meta", Customer)]
    /\ controls = << [user_id |-> Customer,
                      choices |-> Choices(CONFIG_CACHE, 0),
                      text |-> ControlText("pending", FALSE, FALSE)] >>
    /\ clicks = <<>>
    /\ credited = <<0>>
    /\ bc = BcIdle
    /\ last = NoReply

Next ==
    \/ Click(1, ADMIN_ID, "rpa", 1000, 1)
    \/ \E rd \in ReadOutcomes, wr \in WriteOutcomes :
          admin_approve_receipt_callback(rd, wr)
    \/ \E rdBal \in ReadOutcomes :
          start_product_purchase(Customer, Callback("star_100", 0), "ok", rdBal)
    \/ receive_phone_number(Customer, BTN_PHONE)
    \/ \E rd \in ReadOutcomes, wr \in WriteOutcomes :
          receive_premium_username(Customer, AtName(UsernameOf(Customer)), rd, wr, "fail")
    \/ start_cash_control(ADMIN_ID, BTN_CASH_CONTROL)
    \/ cash_control_get_id(ADMIN_ID, Digits(Customer, 1), TRUE, "ok")
    \/ \E inp \in {Digits(0, 1), Digits(MaxBalance, 1), Signed(-1)}, wr \in WriteOutcomes :
          cash_control_apply_amount(ADMIN_ID, inp, wr)
    \/ AC_start_cash_control(ADMIN_ID, BTN_CASH_CONTROL)
    \/ \E rd \in ReadOutcomes :
          AC_cash_control_get_id(ADMIN_ID, Digits(Customer, 1), TRUE, rd)
    \/ \E inp \in {Signed(1), Signed(-1), Signed(-MaxBalance)}, cell \in {"ok", "fail"} :
          AC_cash_control_apply_amount(ADMIN_ID, inp, TRUE, cell)

Spec == Init /\ [][Next]_vars

\* C1: every stored coin balance is at least 0, whatever the interleaving of
\* purchase finalize, receipt approval and the two cash-control flows.
C1_BalanceNeverNegative ==
    \A r \in 1..Len(WS_USER_DATA) : WS_USER_DATA[r].coin_balance >= 0

\* a purchase has debited the customer down to 0
C1_Witness ==
    /\ Balance(WS_USER_DATA, Customer) = 0
    /\ last.cb = "receive_premium_username"
    /\ last.reply = "purchase_successful"

----------------------------------------------------------------------------
(* Credit: the admin approves a pending receipt for one of the configured  *)
(* amounts, under every kind of coin_rate_coin setting.                    *)

InitCredit ==
    /\ app = "main"
    /\ \E rate \in {Unset, TextStr, NumStr(0), NumStr(1), IntStr(1), IntStr(2)} :
          CONFIG_CACHE = Config([coin_rate_coin |-> rate,
                                 receipt_approve_amounts |-> Amounts(1..MaxBalance)])
    /\ \E b \in 0..1 : WS_USER_DATA = Sheet(b)
    /\ WS_CONFIG = CONFIG_CACHE
    /\ BOT_STATUS_ON = TRUE
    /\ CONFIG_TS = 0
    /\ WS_ORDERS = <<>>
    /\ conv = NoConversation
    /\ user_data = NoUserData
    /\ controls = << [user_id |-> Customer,
                      choices |-> 1..MaxBalance,
                      text |-> ControlText("pending", FALSE, FALSE)] >>
    /\ clicks = <<>>
    /\ credited = <<0>>
    /\ bc = BcIdle
    /\ last = NoReply

NextCredit ==
    \/ \E a \in 1..MaxBalance : Click(1, ADMIN_ID, "rpa", a, MaxClicks)
    \/ \E rd \in ReadOutcomes, wr \in WriteOutcomes :
          admin_approve_receipt_callback(rd, wr)

SpecCredit == InitCredit /\ [][NextCredit]_vars

\* the step handles an Approve click of the admin on a control message
\* whose text carries no marker, and reports the approval
ApprovesPending ==
    /\ clicks # <<>>
    /\ clicks' = Tail(clicks)
    /\ Head(clicks).data = "rpa"
    /\ ~Head(clicks).text.marked
    /\ last'.reply = "approved"

----------------------------------------------------------------------------
(* Gates: the customer walks through the top-up and the purchase flow      *)
(* while the admin bans and unbans them, switches the maintenance mode     *)
(* and the config cache is refreshed.                                      *)

InitGate ==
    /\ app = "main"
    /\ \E st \in {Unset, StatusStr("ON"), StatusStr("OFF")} :
          WS_CONFIG = Config([star_100 |-> IntStr(1000), bot_status |-> st])
    /\ CONFIG_CACHE \in {EmptyDict, WS_CONFIG}
    /\ BOT_STATUS_ON = TRUE
    /\ CONFIG_TS = 0
    /\ WS_USER_DATA = Sheet(1)
    /\ WS_ORDERS = <<>>
    /\ conv = NoConversation
    /\ user_data = NoUserData
    /\ controls = <<>> /\ clicks = <<>> /\ credited = <<>>
    /\ bc = BcIdle
    /\ last = NoReply

NextGate ==
    \/ handle_payment_method(Customer, BTN_PAYMENT, "ok")
    \/ handle_coin_package_select(Customer, Callback("buycoin_1_1000", 0))
    \/ start_payment_conv(Customer, Callback("pay_kpay", 0))
    \/ /\ Len(controls) < MaxReceipts
       /\ \E send \in {"ok", "fail"} : receive_receipt(Customer, Prose, "ok", send, FALSE)
    \/ start_product_purchase(Customer, Callback("star_100", 0), "ok", "ok")
    \/ receive_phone_number(Customer, BTN_PHONE)
    \/ receive_premium_username(Customer, AtName(UsernameOf(Customer)), "ok", "ok", "ok")
    \/ \E from \in Users, is_banning \in BOOLEAN, wr \in {"ok", "no_row", "fail"} :
          toggle_ban_callback(from, is_banning, Customer, wr)
    \/ \E from \in Users, new_status \in {"ON", "OFF"}, wr \in {"ok", "fail"},
          rd \in ReadOutcomes :
          handle_toggle_status_callback(from, new_status, wr, CONFIG_TS, rd)
    \/ \E rd \in ReadOutcomes : get_config_data_refresh(TRUE, CONFIG_TS, rd)
    \/ \E u \in Users, found \in BOOLEAN, ap \in {"ok", "fail"} :
          start_command(u, found, ap, "ok")

SpecGate == InitGate /\ [][NextGate]_vars

\* the receipt submission step of u
Submitted(u) ==
    /\ conv[u]["coin_purchase"] = "WAITING_FOR_RECEIPT"
    /\ last'.cb = "receive_receipt"
    /\ last'.user = u

\* C12: a finalize step of the purchase flow, or a receipt submission, taken
\* while the user is banned or while the maintenance mode is on debits
\* nothing, appends no order and forwards no receipt.
C12_GatesRecheckedAtFinalize ==
    [][(/\ Finalized(Customer) \/ Submitted(Customer)
        /\ \/ get_user_data_from_sheet(WS_USER_DATA, Customer, "ok").banned
           \/ ~BOT_STATUS_ON)
       => /\ WS_USER_DATA' = WS_USER_DATA
          /\ WS_ORDERS' = WS_ORDERS
          /\ controls' = controls]_vars

\* C13: a refresh of the config cache whose read fails leaves the cached
\* mapping as it was.
C13_FailedRefreshKeepsLastGood ==
    [][(last'.cb = "get_config_data" /\ last'.reply = "read_failed")
       => CONFIG_CACHE' = CONFIG_CACHE]_vars

\* C14: no user is in a state of two conversations at once.
C14_AtMostOneActiveFlow ==
    \A u \in Users :
        Cardinality({c \in ConvNames : conv[u][c] \notin {"NONE", "END"}}) <= 1

\* the replies that tell the sender their input was not accepted
ErrorReplies ==
    {"invalid_phone", "invalid_username", "not_found", "invalid_amount",
     "invalid_format", "cannot_subtract"}

\* the step handles an input the flow's state does not accept: a text
\* that is no phone number, no username, names no registered user, or is
\* no number; or a change that would take the balance below 0
HandlesInvalidInput ==
    \/ \E inp \in {Digits(4, 4), Prose} : receive_phone_number(Customer, inp)
    \/ receive_premium_username(Customer, Prose, "ok", "ok", "ok")
    \/ \E inp \in {Digits(Customer + 1, 1), Prose} :
          \/ cash_control_get_id(ADMIN_ID, inp, TRUE, "ok")
          \/ AC_cash_control_get_id(ADMIN_ID, inp, TRUE, "ok")
    \/ /\ Has(user_data[ADMIN_ID], "target_user_id")
       /\ \E inp \in {Prose, NumPrefix(1), Signed(-1)} :
             cash_control_apply_amount(ADMIN_ID, inp, "ok")
    \/ /\ Has(user_data[ADMIN_ID], "target_cash_control_id")
       /\ \E inp \in {Prose, NumPrefix(1), Signed(-MaxBalance - 1)} :
             AC_cash_control_apply_amount(ADMIN_ID, inp, TRUE, "ok")

\* C15: a step that handles an input failing validation leaves every
\* conversation in its state, replies with an error and leaves the user
\* sheet as it was.
C15_InvalidInputKeepsState ==
    [][HandlesInvalidInput
       => /\ conv' = conv
          /\ last'.reply \in ErrorReplies
          /\ WS_USER_DATA' = WS_USER_DATA]_vars

\* the step handles a click of someone who is not the resolved admin
HandlesForeignClick ==
    /\ clicks # <<>>
    /\ clicks' = Tail(clicks)
    /\ Head(clicks).from # get_dynamic_admin_id(CONFIG_CACHE)

\* C16: a step that handles an Approve or Deny click of anyone but the
\* resolved admin changes no balance, appends no record and leaves every
\* control message as it was.
C16_ForeignClickChangesNothing ==
    [][HandlesForeignClick =>
          /\ WS_USER_DATA' = WS_USER_DATA
          /\ WS_ORDERS' = WS_ORDERS
          /\ controls' = controls
          /\ credited' = credited
          /\ last'.reply = "not_authorized"]_vars

\* the customer's Approve press on an unmarked control message was refused
C16_Witness ==
    /\ last.cb = "admin_approve_receipt_callback"
    /\ last.user = Customer
    /\ last.reply = "not_authorized"
    /\ \E m \in 1..Len(controls) : ~controls[m].text.marked

\* C17: a step in which an Approve or a Deny succeeds appends exactly one
\* record to the orders sheet, with the status APPROVED_RECEIPT or
\* DENIED_RECEIPT.
C17_DecisionIsAudited ==
    [][(/\ clicks # <<>>
        /\ clicks' = Tail(clicks)
        /\ last'.reply \in {"approved", "denied"})
       => /\ Len(WS_ORDERS') = Len(WS_ORDERS) + 1
          /\ WS_ORDERS'[Len(WS_ORDERS')].status =
                IF last'.reply = "approved" THEN "APPROVED_RECEIPT"
                ELSE "DENIED_RECEIPT"]_vars

\* C18: no send of a broadcast run is addressed to the resolved admin id.
C18_AdminIsNoRecipient ==
    \A i \in 1..Len(bc.list) :
        bc.list[i] = get_dynamic_admin_id(CONFIG_CACHE) => bc.attempts[i] = 0

----------------------------------------------------------------------------
(* Stale balance: the admin has opened the AdminCommands cash control and  *)
(* changes the customer's balance by 1 while the customer buys.            *)

InitRace ==
    /\ app = "admin_commands"
    /\ CONFIG_CACHE = Config([star_100 |-> IntStr(1000)])
    /\ WS_CONFIG = CONFIG_CACHE
    /\ BOT_STATUS_ON = TRUE
    /\ CONFIG_TS = 0
    /\ WS_USER_DATA = Sheet(1)
    /\ WS_ORDERS = <<>>
    /\ conv = [NoConversation EXCEPT
                  ![ADMIN_ID]["ac_cash_control"] = "AWAIT_CASH_CONTROL_ID"]
    /\ user_data = NoUserData
    /\ controls = <<>> /\ clicks = <<>> /\ credited = <<>>
    /\ bc = BcIdle
    /\ last = NoReply

NextRace ==
    \/ \E rdBal \in ReadOutcomes :
          start_product_purchase(Customer, Callback("star_100", 0), "ok", rdBal)
    \/ \E inp \in {BTN_PHONE, Digits(4, 4)} : receive_phone_number(Customer, inp)
    \/ \E inp \in {AtName(UsernameOf(Customer)), Prose}, rd \in ReadOutcomes,
          wr \in WriteOutcomes, lg \in {"ok", "fail"} :
          receive_premium_username(Customer, inp, rd, wr, lg)
    \/ \E inp \in {Digits(Customer, 1), AtName(UsernameOf(Customer)), Prose},
          rd \in ReadOutcomes :
          AC_cash_control_get_id(ADMIN_ID, inp, TRUE, rd)
    \/ \E inp \in {Signed(1), Signed(-1), Prose}, cell \in {"ok", "fail"} :
          AC_cash_control_apply_amount(ADMIN_ID, inp, TRUE, cell)

SpecRace == InitRace /\ [][NextRace]_vars

C20_FailedWriteCommitsNothing ==
    [][(\/ last'.cb = "receive_premium_username" /\ last'.reply = "failed_to_deduct"
        \/ last'.cb = "admin_approve_receipt_callback" /\ last'.reply = "error"
        \/ last'.cb = "cash_control_apply_amount" /\ last'.reply = "update_failed")
       => /\ WS_USER_DATA' = WS_USER_DATA
          /\ WS_ORDERS' = WS_ORDERS]_vars

----------------------------------------------------------------------------
(* The config cache and the admin id: the sheet is edited by hand between   *)
(* the reads, the admin toggles the maintenance mode, handlers call         *)
(* get_config_data as time passes, and whoever is the admin at the time     *)
(* opens the cash control flow.                                             *)

\* the admin_contact_id cell holds nothing, "", an id, a decimal number or
\* any other text; the sheet may have been edited since the cache was read
InitConfig ==
    /\ app = "main"
    /\ \E a, b \in {Unset, [cls |-> "empty", q |-> 0], IntStr(ADMIN_ID), IntStr(Customer),
                     NumStr(Customer * RateScale + 1), TextStr} :
          /\ WS_CONFIG = Config([admin_contact_id |-> a, bot_status |-> StatusStr("ON")])
          /\ CONFIG_CACHE \in
                {EmptyDict,
                 Config([admin_contact_id |-> b, bot_status |-> StatusStr("ON")])}
    /\ BOT_STATUS_ON = TRUE
    /\ CONFIG_TS = 0
    /\ WS_USER_DATA = Sheet(0)
    /\ WS_ORDERS = <<>>
    /\ conv = NoConversation
    /\ user_data = NoUserData
    /\ controls = <<>> /\ clicks = <<>> /\ credited = <<>>
    /\ bc = BcIdle
    /\ last = NoReply

NextConfig ==
    \/ \E force_refresh \in BOOLEAN, now \in Clock, rd \in ReadOutcomes :
          get_config_data_refresh(force_refresh, now, rd)
    \/ \E from \in Users, new_status \in {"ON", "OFF"}, wr \in {"ok", "fail"},
          now \in Clock, rd \in ReadOutcomes :
          handle_toggle_status_callback(from, new_status, wr, now, rd)
    \/ \E u \in Users :
          \/ start_cash_control(u, BTN_CASH_CONTROL)
          \/ cash_control_get_id(u, Digits(Customer, 1), TRUE, "ok")
          \/ cash_control_apply_amount(u, Digits(1, 1), "ok")

SpecConfig == InitConfig /\ [][NextConfig]_vars

----------------------------------------------------------------------------
\* C21: register_user_if_not_exists is an idempotent insert: after every
\* /start the user sheet holds at most one row per user_id, and a /start of a
\* user who has a row changes no field of a row.
C21_RegisterIsIdempotent ==
    [][last'.cb = "start_command" /\ FirstRow(WS_USER_DATA, last'.user, 1) # 0
       => /\ WS_USER_DATA' = WS_USER_DATA
          /\ \A i, j \in 1..Len(WS_USER_DATA') :
                WS_USER_DATA'[i].user_id = WS_USER_DATA'[j].user_id => i = j]_vars

\* C22: get_config_data reads the store exactly when force_refresh is set or
\* the cache is older than CONFIG_TTL_SECONDS, and then stamps the cache with
\* the time of the call; every other call returns the cached mapping and
\* leaves the mapping and its timestamp as they were.
C22_ReadsOnlyWhenForcedOrExpired ==
    [][\A force_refresh \in BOOLEAN, now \in Clock, rd \in ReadOutcomes :
          get_config_data_refresh(force_refresh, now, rd)
          => IF force_refresh \/ now - CONFIG_TS > CONFIG_TTL_SECONDS
             THEN /\ last'.reply \in {"refreshed", "read_failed"}
                  /\ CONFIG_TS' = now
             ELSE /\ last'.reply = "cached"
                  /\ CONFIG_CACHE' = CONFIG_CACHE
                  /\ CONFIG_TS' = CONFIG_TS]_vars

\* a call inside the TTL window of an earlier refresh returned a cached
\* mapping that differs from the sheet
C22_Witness ==
    /\ last.cb = "get_config_data" /\ last.reply = "cached"
    /\ CONFIG_TS > 0
    /\ CONFIG_CACHE # WS_CONFIG

\* the id a config mapping names: the value of admin_contact_id when it is
\* there and a whole number, else the compiled-in one
NamedAdmin(config) ==
    IF /\ "admin_contact_id" \in DOMAIN config
       /\ config["admin_contact_id"].cls = "num"
       /\ config["admin_contact_id"].q % RateScale = 0
    THEN config["admin_contact_id"].q \div RateScale
    ELSE ADMIN_ID

C25_ApproveAddsToLedgerValue ==
    [][\A wr \in WriteOutcomes :
          (admin_approve_receipt_callback("ok", wr) /\ last'.reply = "approved")
          => Balance(WS_USER_DATA', Customer) =
                Balance(WS_USER_DATA, Customer)
                + TruncDiv(Head(clicks).amount, ApproveRate(CONFIG_CACHE))]_vars

\* the receipt was forwarded at balance 1, a cash control credit brought the
\* balance to 2, and the one credit of the approval left it at 3
C25_Witness ==
    /\ last.cb = "admin_approve_receipt_callback"
    /\ last.reply = "approved"
    /\ credited = <<1>>
    /\ Balance(WS_USER_DATA, Customer) = 3
\* C26: a "Payment Method" message of a customer, whatever state of a flow
\* they are in, is taken by the entry point of the top-up flow, which puts
\* them in its first state, and the user sheet stays as it was.
C26_EntryInputRestartsFlow ==
    [][(last'.user = Customer /\ last'.label = "Payment Method")
       => /\ last'.cb = "handle_payment_method"
          /\ conv'[Customer]["coin_purchase"] = "SELECT_COIN_PACKAGE"
          /\ WS_USER_DATA' = WS_USER_DATA]_vars

\* C27: the orders sheet only grows at its end, its rows staying as they
\* were appended, and every row's status is one of PENDING, ORDER_PLACED,
\* APPROVED_RECEIPT, DENIED_RECEIPT, FAILED_INSUFFICIENT_FUNDS.
C27_OrderLogIsAppendOnly ==
    [][/\ Len(WS_ORDERS') >= Len(WS_ORDERS)
       /\ \A i \in 1..Len(WS_ORDERS) : WS_ORDERS'[i] = WS_ORDERS[i]
       /\ \A i \in 1..Len(WS_ORDERS') :
            WS_ORDERS'[i].status \in {"PENDING", "ORDER_PLACED", "APPROVED_RECEIPT",
                                      "DENIED_RECEIPT", "FAILED_INSUFFICIENT_FUNDS"}]_vars

\* C28: the step that ends a confirmed broadcast run, its report to the
\* admin not failing in transit, reports the tally and leaves the admin in
\* no state of the broadcast conversations, whatever the recipient list and
\* whatever sends raised.
C28_RunEndsReportedAndIdle ==
    [][(execute_broadcast_finish("ok") \/ AC_confirm_broadcast_finish("ok"))
       => /\ last'.reply \in {"finished", "completed"}
          /\ conv'[bc.admin]["broadcast"] = "NONE"
          /\ conv'[bc.admin]["ac_broadcast"] = "NONE"]_vars

\* C29: an Approve whose balance write succeeds leaves the customer's stored
\* balance at what was stored before plus the coins, whether its read of the
\* ledger succeeded or failed.
C29_SuccessfulWriteAddsToStored ==
    [][\A rd \in ReadOutcomes, wr \in WriteOutcomes :
          (admin_approve_receipt_callback(rd, wr) /\ last'.reply = "approved")
          => Balance(WS_USER_DATA', Customer) =
                Balance(WS_USER_DATA, Customer)
                + TruncDiv(Head(clicks).amount, ApproveRate(CONFIG_CACHE))]_vars

\* C30: a click is answered "already processed" only when the text it
\* carries was written by a completed Approve or Deny, or by an earlier such
\* answer: never on a receipt that is pending, or whose credit failed.
C30_TerminalOnlyAfterDecision ==
    [][(/\ clicks # <<>>
        /\ clicks' = Tail(clicks)
        /\ last'.reply = "already_processed")
       => Head(clicks).text.stage \in {"approved", "denied", "notice"}]_vars

\* C31: a cash control step of AdminCommands that succeeds with change d
\* leaves the target's stored balance at what was stored before the step
\* plus d, also when a purchase changed it after the target was chosen.
C31_DeltaAppliesToStoredBalance ==
    [][\A inp \in {Signed(1), Signed(-1)} :
          (/\ AC_cash_control_apply_amount(ADMIN_ID, inp, TRUE, "ok")
           /\ last'.reply = "balance_updated")
          => Balance(WS_USER_DATA', Customer) =
                Balance(WS_USER_DATA, Customer) + inp.val]_vars

\* C32: the coin price kept in product_details when a product is chosen, the
\* one finalize debits, is the coin price the product keyboard shows for that
\* product under the same config.
C32_StoredPriceIsShownPrice ==
    \A u \in Users :
        Has(user_data[u], "product_details")
        => LET d == user_data[u]["product_details"]
               shown == KeyboardPrice(CONFIG_CACHE, d.product_key)
           IN  shown.res = "ok" /\ shown.price_coin = d.price_coin

\* C33: a finalize step that debits the buyer and tells them the purchase
\* succeeded appends the order of that purchase to the orders sheet.
C33_DebitHasItsOrder ==
    [][\A u \in Users :
          (Finalized(u) /\ last'.reply = "purchase_successful")
          => /\ Len(WS_ORDERS') = Len(WS_ORDERS) + 1
             /\ WS_ORDERS'[Len(WS_ORDERS')].user_id = u]_vars

\* C34: whoever writes a balance through the cash control flow is the admin
\* the config names at the time of the write, also when the admin id of the
\* config was changed after that user opened the flow.
C34_WriterIsAdminAtWrite ==
    [][\A u \in Users :
          (/\ cash_control_apply_amount(u, Digits(1, 1), "ok")
           /\ last'.reply = "balance_updated")
          => is_admin(u)]_vars

\* C35: while AdminCommands.confirm_broadcast runs and when it has finished,
\* successful + failed is the number of recipients the loop has gone
\* through, so the finished run has successful + failed = total_users.
C35_TallyCountsProcessed ==
    (bc.impl = "ac" /\ bc.pc \in {"running", "done"})
    => /\ bc.sent + bc.failed = bc.idx - 1
       /\ bc.pc = "done" => bc.sent + bc.failed = Len(bc.list)

\* C36: a Deny click, whoever presses it and whatever the control message
\* shows, leaves the coin_balance of every user as it was.
C36_DenyWritesNoBalance ==
    [][admin_deny_receipt_callback
       => \A u \in Users :
             Balance(WS_USER_DATA', u) = Balance(WS_USER_DATA, u)]_vars

\* the admin has denied a receipt and the control message shows the denial
C36_Witness ==
    /\ last.cb = "admin_deny_receipt_callback"
    /\ last.reply = "denied"
    /\ \E m \in 1..Len(controls) : controls[m].text.stage = "denied"

----------------------------------------------------------------------------
(* Ban switches: the admin, whoever the config names, presses the ban and  *)
(* unban buttons of both modules for any user, and the users open the      *)
(* top-up flow.                                                            *)

InitBan ==
    /\ app = "admin_commands"
    /\ CONFIG_CACHE \in {EmptyDict, Config([admin_contact_id |-> IntStr(Customer)])}
    /\ WS_CONFIG = CONFIG_CACHE
    /\ BOT_STATUS_ON = TRUE
    /\ CONFIG_TS = 0
    /\ WS_USER_DATA = Sheet(0)
    /\ WS_ORDERS = <<>>
    /\ conv = NoConversation
    /\ user_data = NoUserData
    /\ controls = <<>> /\ clicks = <<>> /\ credited = <<>>
    /\ bc = BcIdle
    /\ last = NoReply

NextBan ==
    \/ \E from, target_user_id \in Users, is_banning \in BOOLEAN,
          wr \in {"ok", "no_row", "fail"} :
          toggle_ban_callback(from, is_banning, target_user_id, wr)
    \/ \E from, target_user_id \in Users, rd \in ReadOutcomes, found \in BOOLEAN,
          cell \in {"ok", "col8", "fail"} :
          AC_handle_user_ban_unban(from, target_user_id, rd, found, cell)
    \/ \E u \in Users, rd \in ReadOutcomes : handle_payment_method(u, BTN_PAYMENT, rd)

SpecBan == InitBan /\ [][NextBan]_vars

\* C37: whatever ban and unban buttons are pressed, the row of the admin the
\* config names is never banned.
C37_AdminRowStaysUnbanned ==
    \A u \in Users : is_admin(u) => ~is_user_banned(WS_USER_DATA, u, "ok")

\* C38: when a user who is not the admin opens the top-up flow or the
\* purchase flow, the entry is refused for maintenance exactly when the
\* bot_status of the config is OFF.
C38_GateFollowsConfig ==
    [][(\/ handle_payment_method(Customer, BTN_PAYMENT, "ok")
        \/ start_product_purchase(Customer, Callback("star_100", 0), "ok", "ok"))
       => (last'.reply = "maintenance"
           <=> /\ Has(get_config_data, "bot_status")
               /\ get_config_data["bot_status"] = StatusStr("OFF"))]_vars

====
